---- MODULE Spec2Model ----
(***************************************************************************)
(* Model of the FindAll (Flash Search) indexing pipeline: the metadata     *)
(* catalog, the inverted index writer/reader, the query cache, the         *)
(* three-stage scanner, the debounced watcher and the rebuild command.     *)
(***************************************************************************)
EXTENDS Integers, Sequences, FiniteSets, TLC

(***************************************************************************)
(* Bounds of the model.                                                    *)
(***************************************************************************)
\* number of distinct file paths under the scanned / watched root
NumPaths == 2
\* scaled-down value of the scanner's BATCH_SIZE (50 in the source)
BATCH_SIZE == 2
\* number of scans (plain or as part of a rebuild) that may be started
MaxScans == 2
\* number of filesystem writes / deletes the environment performs
MaxFsOps == 1
\* number of injected failures (parse, catalog read, catalog write, commit)
MaxFaults == 1
\* number of search calls
MaxSearches == 2
\* number of distinct mtime values and of distinct size values
NumStamps == 2
\* restarts of the application in a run
MaxOpens == 1
\* directories that can be put on the watch list
NumDirs == 2
\* capacity of the progress channel (scaled down from 100)
ProgressCap == 2
\* the walker reports every WalkEvery-th file (scaled down from 100)
WalkEvery == 1
\* the writer reports every WriteEvery-th task (scaled down from 10)
WriteEvery == 1
\* longest argument list of a batch call
MaxEntries == 2
\* add_file saves on every SaveEvery-th entry (scaled down from 1000)
SaveEvery == 2
\* direct calls of the filename index in a run
MaxFnOps == 3
\* words of a query string
MaxWords == 3
\* distinct content hashes and indexing times of stored records
NumHashes == 2
\* calls of the index writer made by the two threads that share it
MaxWriterCalls == 3
\* scaled-down length of the search history (50 in the source)
HistoryCap == 2
\* distinct query strings put into the search history
NumQueries == 3
\* add_search_history calls in a run
MaxHistoryOps == 5

Paths == 1..NumPaths
Mtimes == 1..NumStamps
Sizes == 1..NumStamps

NoFile == [mtime |-> 0, size |-> 0]
NoRec == [modified |-> 0, size |-> 0]
Files == [mtime : Mtimes, size : Sizes]

\* Document as built by create_tantivy_document: keyed by file_path
Doc(p, m, s) == [path |-> p, modified |-> m, size |-> s]
DocSet == [path : Paths, modified : Mtimes, size : Sizes]

EmptyIndex == [d \in DocSet |-> 0]

\* capacity of the task channel: sync_channel(BATCH_SIZE * 2), scaled to one
\* slot so that a root of NumPaths files fills it and blocks the parse stage
TaskChanCap == 1

\* cache keys: the min_size filter of the search call (0: no filter)
Keys == {0, 2}
NoEntry == [hit |-> FALSE, results |-> {}, gen |-> 0]

VARIABLES
    fs,          \* filesystem: path -> (mtime, size) or NoFile
    fsLeft,      \* filesystem operations the environment may still perform
    events,      \* notify events raised and not yet handled
    catalog,     \* MetadataDb files table: path -> FileRecord or NoRec
    committed,   \* inverted index, committed generation: doc -> copies
    pending,     \* IndexWriter operations enqueued since the last commit
    commitGen,   \* number of successful commits
    reader,      \* generation loaded by the IndexReader
    cache,       \* QueryCache: key -> entry or NoEntry
    scanning,    \* a scan_directory call is running
    scanNo,      \* number of scan_directory calls started
    scansLeft,   \* scans and rebuilds that may still be started
    rpc,         \* position of the RebuildIndex handler
    visited,     \* walker: paths whose directory entry has been visited
    walkerDone,  \* walker thread finished (path_tx dropped)
    pathQueue,   \* path channel (walker -> parser)
    uncounted,   \* walker: paths sent whose fetch_add is still to come
    taskChan,    \* task channel (parser -> writer), sync_channel
    taskClosed,  \* parser finished (task_tx dropped)
    doc_batch,   \* writer: document batch
    meta_batch,  \* writer: metadata batch
    wpc,         \* writer position
    wfinal,      \* writer is in its final flush
    watching,    \* a native watcher is installed
    buffer,      \* watcher event_buffer: path -> action
    taken,       \* the map the processor took out of the buffer for this tick
    tickpc,      \* position of the watcher's background processor
    poisoned,    \* the event_buffer mutex is poisoned
    progress,    \* number of ProgressEvents waiting in the progress channel
    progressOn,  \* the Scanner was given a progress sender
    lost,        \* a ProgressEvent was dropped because the channel was full
    total,       \* walker: files discovered (AtomicUsize)
    processed,   \* writer: tasks received
    callArgs,    \* arguments of the catalog query under study
    callRet,     \* what its calls returned
    watchSet,    \* directories the installed native watcher watches
    searchesLeft, \* search calls that may still be made
    spc,         \* position of the search call in flight
    skey,        \* its cache key
    sres,        \* its results, read from the reader's snapshot
    shutdown,    \* SHUTDOWN_FLAG
    faultsLeft,  \* failures the environment may still inject
    faultKinds,  \* the calls that may fail in this run
    schemaFile,  \* index/.schema_version on disk
    metaJson,    \* index/meta.json exists (an index was created there)
    openResult,  \* outcome of the last IndexManager::open
    opensLeft,   \* restarts the environment may still perform
    fnEntries,   \* FilenameIndex.entries, the in-memory Vec<FilenameEntry>
    fnDisk,      \* filename_index/filenames.bin on disk
    fnDir,       \* the directory filename_index exists
    fnJobs,      \* background threads of the filename index not yet run
    fnLeft,      \* direct calls of the filename index still to be made
    qIn,         \* the arguments of an IndexSearcher::search call under study
    qOut,        \* what that call parsed and returned
    wOwner,      \* holder of the Mutex<IndexWriter>, or "none"
    wCall,       \* the writer call each thread is in, and how far it got
    wLog,        \* what the tantivy IndexWriter was handed, in order
    wCallsLeft,  \* writer calls the two threads may still make
    search_history, \* AppSettings.search_history as stored
    hsRet,       \* the last add_search_history call and its outcome
    hsLeft,      \* add_search_history calls still to be made
    hist         \* history of the run (observations only, never read by the code)

fsVars == <<fs, fsLeft, events>>
indexVars == <<committed, pending, commitGen>>
readVars == <<reader, cache>>
scanVars == <<scanning, scanNo, scansLeft, rpc>>
walkVars == <<visited, walkerDone, pathQueue, uncounted>>
chanVars == <<taskChan, taskClosed>>
writerVars == <<doc_batch, meta_batch, wpc, wfinal>>
watchVars == <<watching, buffer, taken, tickpc, poisoned>>
searchVars == <<searchesLeft, spc, skey, sres>>
faultVars == <<faultsLeft, faultKinds>>
openVars == <<schemaFile, metaJson, openResult, opensLeft>>
progVars == <<progress, progressOn, lost, total, processed>>
callVars == <<callArgs, callRet>>
fnVars == <<fnEntries, fnDisk, fnDir, fnJobs, fnLeft>>
queryVars == <<qIn, qOut>>
mutexVars == <<wOwner, wCall, wLog, wCallsLeft>>
settingsVars == <<search_history, hsRet, hsLeft>>

vars == <<fsVars, catalog, indexVars, readVars, scanVars, walkVars, chanVars,
          writerVars, watchVars, searchVars, shutdown, faultVars, openVars,
          watchSet, progVars, callVars, fnVars, queryVars, mutexVars,
          settingsVars, hist>>

(***************************************************************************)
(* Metadata catalog (MetadataDb).                                          *)
(***************************************************************************)
\* a plausible slip: the stored pair compared against the swapped arguments
needs_reindex_swapped(cat, p, modified, size) ==
    IF cat[p] = NoRec THEN TRUE
    ELSE cat[p].modified # size \/ cat[p].size # modified

needs_reindex(cat, p, modified, size) ==
    IF cat[p] = NoRec THEN TRUE
    ELSE cat[p].modified # modified \/ cat[p].size # size

\* the files table with full FileMetadata records (the two stamps, the
\* content hash and indexed_at; the records of one catalog share the last
\* two), and the argument lists of a query
Stored(st, h, t) ==
    IF st = NoRec THEN NoRec
    ELSE [modified |-> st.modified, size |-> st.size,
          content_hash |-> h, indexed_at |-> t]
FullCatalogs ==
    {[p \in Paths |-> Stored(st[p], h, t)] :
        st \in [Paths -> [modified : Mtimes, size : Sizes] \cup {NoRec}],
        h \in 1..NumHashes, t \in 1..NumHashes}
Entry == [path : Paths, modified : Mtimes, size : Sizes]
RECURSIVE SeqsUpTo(_, _)
SeqsUpTo(S, n) ==
    IF n = 0 THEN {<<>>}
    ELSE LET shorter == SeqsUpTo(S, n - 1)
         IN  shorter \cup {Append(q, x) : q \in {r \in shorter : Len(r) = n - 1},
                                          x \in S}
NoArgs == [cat |-> [p \in Paths |-> NoRec], entries |-> <<>>]
NoRet == [called |-> FALSE, single |-> <<>>, batch |-> <<>>,
          catAfter |-> [p \in Paths |-> NoRec]]

\* a slip that would compare the size alone
batch_needs_reindex_size(cat, entries, readOk) ==
    [i \in 1..Len(entries) |->
        IF ~readOk[i] THEN TRUE
        ELSE IF cat[entries[i].path] = NoRec THEN TRUE
        ELSE cat[entries[i].path].size # entries[i].size]

\* MetadataDb::batch_needs_reindex: one read transaction, per entry
\* Ok(Some(meta)) => stamps differ, Ok(None) => true, Err(_) => true
batch_needs_reindex(cat, entries, readOk) ==
    [i \in 1..Len(entries) |->
        IF ~readOk[i] THEN TRUE
        ELSE IF cat[entries[i].path] = NoRec THEN TRUE
        ELSE \/ cat[entries[i].path].modified # entries[i].modified
             \/ cat[entries[i].path].size # entries[i].size]

\* needs_reindex as a Result<bool>: Err when the table read fails
needs_reindex_result(cat, e, readOk) ==
    IF readOk THEN [ok |-> TRUE, val |-> needs_reindex(cat, e.path, e.modified, e.size)]
    ELSE [ok |-> FALSE, val |-> FALSE]

\* the catalog queries are made with the arguments under study: once
\* needs_reindex per entry and once batch_needs_reindex for the list
QueryCatalog(readOk) ==
    /\ ~callRet.called
    /\ readOk \in [1..Len(callArgs.entries) -> BOOLEAN]
    /\ callRet' = [called |-> TRUE,
                   single |-> [i \in 1..Len(callArgs.entries) |->
                                 needs_reindex_result(callArgs.cat,
                                                      callArgs.entries[i], readOk[i])],
                   batch |-> batch_needs_reindex(callArgs.cat, callArgs.entries,
                                                 readOk),
                   catAfter |-> callArgs.cat]
    /\ UNCHANGED <<fsVars, catalog, indexVars, readVars, scanVars, walkVars,
                   chanVars, writerVars, watchVars, searchVars, shutdown,
                   faultVars, openVars, watchSet, progVars, callArgs, hist,
                   fnVars, queryVars, mutexVars, settingsVars>>

\* a slip that would store the two numbers in each other's field
batch_update_metadata_swapped(cat, entries) ==
    [p \in Paths |->
        LET hits == {i \in 1..Len(entries) : entries[i].path = p}
        IN  IF hits = {} THEN cat[p]
            ELSE LET last == CHOOSE i \in hits : \A j \in hits : j <= i
                 IN  [modified |-> entries[last].size,
                      size |-> entries[last].modified]]

\* entries: sequence of (path, modified, size); later entries win
batch_update_metadata(cat, entries) ==
    [p \in Paths |->
        LET hits == {i \in 1..Len(entries) : entries[i].path = p}
        IN  IF hits = {} THEN cat[p]
            ELSE LET last == CHOOSE i \in hits : \A j \in hits : j <= i
                 IN  [modified |-> entries[last].modified,
                      size |-> entries[last].size]]

\* a slip that would leave the first entry of a failed batch in the table
FailedWritePartial(cat, entries) ==
    IF entries = <<>> THEN cat
    ELSE batch_update_metadata(cat, <<Head(entries)>>)

\* batch_update_metadata returning Err: the write transaction is dropped
\* without a commit and the table is as before
FailedWrite(cat, entries) == cat

\* the table of the write transaction after the inserts of `entries`: full
\* FileMetadata records with the content hash and indexed_at of the call
Inserted(cat, entries, hash, now) ==
    [p \in Paths |->
        LET hits == {i \in 1..Len(entries) : entries[i].path = p}
        IN  IF hits = {} THEN cat[p]
            ELSE LET last == CHOOSE i \in hits : \A j \in hits : j <= i
                 IN  [modified |-> entries[last].modified,
                      size |-> entries[last].size,
                      content_hash |-> hash, indexed_at |-> now]]

\* the places where batch_update_metadata returns through `?`
FailPoints(entries) ==
    {[step |-> "none", at |-> 0], [step |-> "begin", at |-> 0],
     [step |-> "open", at |-> 0], [step |-> "commit", at |-> 0]}
      \cup {[step |-> "insert", at |-> i] : i \in 1..Len(entries)}

\* a slip that would write the inserts through to the table
AbortedKeeps(before, inTxn) == inTxn

\* a WriteTransaction dropped without commit is aborted
Aborted(before, inTxn) == before

\* MetadataDb::batch_update_metadata as a Result<usize> and the table it
\* leaves, when it fails at failAt
batch_update_result(cat, entries, hash, now, failAt) ==
    IF entries = <<>> THEN [ok |-> TRUE, count |-> 0, cat |-> cat]
    ELSE IF failAt.step = "none"
    THEN [ok |-> TRUE, count |-> Len(entries),
          cat |-> Inserted(cat, entries, hash, now)]
    ELSE LET done == IF failAt.step = "insert" THEN failAt.at - 1
                     ELSE IF failAt.step = "commit" THEN Len(entries) ELSE 0
         IN  [ok |-> FALSE, count |-> 0,
              cat |-> Aborted(cat, Inserted(cat, SubSeq(entries, 1, done),
                                            hash, now))]

\* batch_update_metadata is called with the arguments under study
UpdateCatalog(hash, now, failAt) ==
    /\ ~callRet.called
    /\ failAt \in FailPoints(callArgs.entries)
    /\ callArgs.entries = <<>> => failAt.step = "none"
    /\ LET r == batch_update_result(callArgs.cat, callArgs.entries, hash, now,
                                    failAt)
       IN  callRet' = [called |-> TRUE, single |-> <<>>, batch |-> <<>>,
                       catAfter |-> r.cat, ok |-> r.ok, count |-> r.count,
                       hash |-> hash, now |-> now, failAt |-> failAt]
    /\ UNCHANGED <<fsVars, catalog, indexVars, readVars, scanVars, walkVars,
                   chanVars, writerVars, watchVars, searchVars, shutdown,
                   faultVars, openVars, watchSet, progVars, callArgs, hist,
                   fnVars, queryVars, mutexVars, settingsVars>>

(***************************************************************************)
(* Inverted index writer (IndexWriterManager).                             *)
(***************************************************************************)
AddOp(d) == [op |-> "add", path |-> d.path, modified |-> d.modified, size |-> d.size]

\* one add_document per entry, in order; nothing is deleted first
add_documents_batch(pend, docs) ==
    pend \o [i \in 1..Len(docs) |-> AddOp(docs[i])]

ApplyOp(idx, o) ==
    IF o.op = "add"
    THEN [idx EXCEPT ![Doc(o.path, o.modified, o.size)] = @ + 1]
    ELSE IF o.op = "del"
    THEN [d \in DocSet |-> IF d.path = o.path THEN 0 ELSE idx[d]]
    ELSE EmptyIndex

RECURSIVE ApplyOps(_, _)
ApplyOps(idx, ops) ==
    IF ops = <<>> THEN idx
    ELSE ApplyOps(ApplyOp(idx, Head(ops)), Tail(ops))

\* number of live documents of a path in an index generation
RECURSIVE SumOver(_, _)
SumOver(idx, S) ==
    IF S = {} THEN 0
    ELSE LET d == CHOOSE x \in S : TRUE
         IN  idx[d] + SumOver(idx, S \ {d})

LiveDocs(idx, p) == SumOver(idx, {d \in DocSet : d.path = p})

\* outcomes a fallible call may have: success, or failure while the budget lasts
(***************************************************************************)
(* IndexManager::open and the schema version file.                         *)
(***************************************************************************)
SCHEMA_VERSION == "1.0.0"
OldVersion == "0.9.0"

\* .schema_version as a file: its text, whether whitespace surrounds it,
\* and whether it can be read as a string at all
VersionFile(v) == [exists |-> TRUE, readable |-> TRUE, text |-> v, pad |-> FALSE]
NoVersionFile == [exists |-> FALSE, readable |-> FALSE, text |-> "", pad |-> FALSE]
VersionFiles ==
    {NoVersionFile}
    \cup [exists : {TRUE}, readable : {TRUE},
          text : {SCHEMA_VERSION, OldVersion}, pad : BOOLEAN]
    \cup {[exists |-> TRUE, readable |-> FALSE, text |-> "", pad |-> FALSE]}

\* read_schema_version: read_to_string(..).ok().map(trim)
read_schema_version(f) ==
    IF f.exists /\ f.readable THEN [some |-> TRUE, ver |-> f.text]
    ELSE [some |-> FALSE, ver |-> ""]

\* a slip that would keep the documents of an index that has no version file
MustRebuildVersioned(stored, hasMeta) ==
    stored.some /\ stored.ver # SCHEMA_VERSION

\* the branches of open that delete and recreate the index directory:
\* "if let Some(ver) = stored_version { if ver != SCHEMA_VERSION {..} }
\*  else if index_path.join("meta.json").exists() {..}"
MustRebuild(stored, hasMeta) ==
    \/ stored.some /\ stored.ver # SCHEMA_VERSION
    \/ ~stored.some /\ hasMeta

\* the steps of open that touch the disk, in order, for each branch
OpenSteps(stored, hasMeta) ==
    IF MustRebuild(stored, hasMeta) THEN <<"remove", "create", "write", "open">>
    ELSE IF stored.some THEN <<"open">>
    ELSE <<"write", "open">>

\* has step s of the sequence been completed when the call fails at failAt
Done(steps, s, failAt) ==
    \E i \in 1..Len(steps) :
        /\ steps[i] = s
        /\ \A j \in 1..i : steps[j] # failAt

(***************************************************************************)
(* Filename index (FilenameIndex).                                         *)
(***************************************************************************)
\* the last component of a path: paths 1 and 2 are files of one name in two
\* directories, every further path has a name of its own
FileName(p) == IF p = 1 THEN 1 ELSE p - 1
FilenameEntry(p) == [path |-> p, name |-> FileName(p)]

\* filenames.bin: absent, or the bincode of a list of entries
NoBin == [exists |-> FALSE, data |-> <<>>]
Bin(es) == [exists |-> TRUE, data |-> es]

\* the closures handed to std::thread::spawn
SaveJob(es) == [kind |-> "save", data |-> es]
DeleteJob == [kind |-> "delete", data |-> <<>>]

\* a plausible slip: an older entry of the path is dropped before the push
PushedUnique(es, p) ==
    Append(SelectSeq(es, LAMBDA e : e.path # p), FilenameEntry(p))

\* guard.push(entry)
Pushed(es, p) == Append(es, FilenameEntry(p))

\* FilenameIndex::add_file: push, and a save thread on every SaveEvery-th entry
add_file(p) ==
    LET es == Pushed(fnEntries, p)
    IN  /\ fnEntries' = es
        /\ fnJobs' = IF Len(es) % SaveEvery = 0
                     THEN fnJobs \cup {SaveJob(es)} ELSE fnJobs
        /\ UNCHANGED <<fnDisk, fnDir>>

\* FilenameIndex::commit: a save thread with a copy of the entries
commit_names ==
    /\ fnJobs' = fnJobs \cup {SaveJob(fnEntries)}
    /\ UNCHANGED <<fnEntries, fnDisk, fnDir>>

\* FilenameIndex::clear: empty the list, a thread deletes the file
clear_names ==
    /\ fnEntries' = <<>>
    /\ fnJobs' = fnJobs \cup {DeleteJob}
    /\ UNCHANGED <<fnDisk, fnDir>>

\* FilenameIndex::rebuild_index(paths): the list is replaced, then saved
rebuild_index(paths) ==
    LET es == [i \in 1..Len(paths) |-> FilenameEntry(paths[i])]
    IN  /\ fnEntries' = es
        /\ fnJobs' = fnJobs \cup {SaveJob(es)}
        /\ UNCHANGED <<fnDisk, fnDir>>

\* FilenameIndex::search: the entries whose name matches, at most `limit`
RECURSIVE Matching(_, _, _)
Matching(es, q, limit) ==
    IF es = <<>> \/ limit = 0 THEN <<>>
    ELSE IF Head(es).name = q
         THEN <<Head(es)>> \o Matching(Tail(es), q, limit - 1)
         ELSE Matching(Tail(es), q, limit)
search_names(es, q, limit) ==
    [i \in 1..Len(Matching(es, q, limit)) |->
        [file_path |-> Matching(es, q, limit)[i].path,
         file_name |-> Matching(es, q, limit)[i].name]]

\* FilenameIndex::get_stats
RECURSIVE EntryBytes(_)
EntryBytes(es) ==
    IF es = <<>> THEN 0
    ELSE Head(es).path + Head(es).name + 32 + EntryBytes(Tail(es))
get_stats(es) == [total_files |-> Len(es), index_size_bytes |-> EntryBytes(es)]

\* FilenameIndex::open: the entries of filenames.bin if the directory and the
\* file exist, else an empty list
open_names(disk, dir) == IF dir /\ disk.exists THEN disk.data ELSE <<>>

\* save_to_disk_sync: std::fs::write into the directory; its error (the
\* directory does not exist) is dropped
save_to_disk_sync(disk, dir, data) == IF dir THEN Bin(data) ELSE disk

\* everything but the filename index and the history
restVars == <<fsVars, catalog, indexVars, readVars, scanVars, walkVars,
              chanVars, writerVars, watchVars, searchVars, shutdown, faultVars,
              openVars, watchSet, progVars, callVars, queryVars, mutexVars,
              settingsVars>>

\* a background thread of the filename index runs
FnJobRun(job) ==
    /\ job \in fnJobs
    /\ fnJobs' = fnJobs \ {job}
    /\ fnDisk' = IF job.kind = "save"
                 THEN save_to_disk_sync(fnDisk, fnDir, job.data)
                 ELSE NoBin
    /\ UNCHANGED <<fnEntries, fnDir, fnLeft, restVars, hist>>

\* the snapshot a call hands to a save thread, if it starts one
NoSave == [some |-> FALSE, data |-> <<>>]
Saved(es) == [some |-> TRUE, data |-> es]

\* a direct call of the filename index is made and noted in the history
FnCall(op, ret, save) ==
    /\ fnLeft > 0
    /\ fnLeft' = fnLeft - 1
    /\ hist' = [hist EXCEPT
                  !.fnOp = [op |-> op, before |-> fnEntries, ret |-> ret],
                  !.fnSave = IF save.some THEN save ELSE @,
                  !.fnCleared = @ \/ op = "clear"]
    /\ UNCHANGED restVars

FnAdd(p) ==
    /\ FnCall("add_file", <<>>,
              IF Len(Pushed(fnEntries, p)) % SaveEvery = 0
              THEN Saved(Pushed(fnEntries, p)) ELSE NoSave)
    /\ add_file(p)

FnCommit ==
    /\ FnCall("commit", <<>>, Saved(fnEntries))
    /\ commit_names

FnClear ==
    /\ FnCall("clear", <<>>, NoSave)
    /\ clear_names

FnRebuild(paths) ==
    /\ FnCall("rebuild_index", <<>>,
              Saved([i \in 1..Len(paths) |-> FilenameEntry(paths[i])]))
    /\ rebuild_index(paths)

FnSearch(q, limit) ==
    /\ FnCall("search", search_names(fnEntries, q, limit), NoSave)
    /\ UNCHANGED <<fnEntries, fnDisk, fnDir, fnJobs>>

FnGetStats ==
    /\ FnCall("get_stats", <<get_stats(fnEntries)>>, NoSave)
    /\ UNCHANGED <<fnEntries, fnDisk, fnDir, fnJobs>>

\* the filename index opened on a fresh data directory, with no direct calls
NoNames ==
    /\ fnEntries = <<>>
    /\ fnDisk = NoBin
    /\ fnDir = FALSE
    /\ fnJobs = {}
    /\ fnLeft = 0

(***************************************************************************)
(* Query parser (ParsedQuery::parse).  A string is a sequence of one-      *)
(* character strings.                                                      *)
(***************************************************************************)
Digits == {"0", "1", "2", "3", "4", "5", "6", "7", "8", "9"}
DigitVal(c) ==
    CASE c = "0" -> 0 [] c = "1" -> 1 [] c = "2" -> 2 [] c = "3" -> 3
      [] c = "4" -> 4 [] c = "5" -> 5 [] c = "6" -> 6 [] c = "7" -> 7
      [] c = "8" -> 8 [] c = "9" -> 9

\* char::to_lowercase on the ASCII letters
LowerChar(c) ==
    CASE c = "A" -> "a"
      [] c = "B" -> "b"
      [] c = "C" -> "c"
      [] c = "D" -> "d"
      [] c = "E" -> "e"
      [] c = "F" -> "f"
      [] c = "G" -> "g"
      [] c = "H" -> "h"
      [] c = "I" -> "i"
      [] c = "J" -> "j"
      [] c = "K" -> "k"
      [] c = "L" -> "l"
      [] c = "M" -> "m"
      [] c = "N" -> "n"
      [] c = "O" -> "o"
      [] c = "P" -> "p"
      [] c = "Q" -> "q"
      [] c = "R" -> "r"
      [] c = "S" -> "s"
      [] c = "T" -> "t"
      [] c = "U" -> "u"
      [] c = "V" -> "v"
      [] c = "W" -> "w"
      [] c = "X" -> "x"
      [] c = "Y" -> "y"
      [] c = "Z" -> "z"
      [] OTHER -> c
to_lowercase(s) == [i \in 1..Len(s) |-> LowerChar(s[i])]

\* s[a..b-1]
Slice(s, a, b) == [i \in 1..(b - a) |-> s[a + i - 1]]

\* does w stand in s at position i: exactly, or ignoring case ((?i))
StandsAt(s, i, w) ==
    /\ i + Len(w) - 1 <= Len(s)
    /\ \A k \in 1..Len(w) : s[i + k - 1] = w[k]
StandsAtNoCase(s, i, w) ==
    /\ i + Len(w) - 1 <= Len(s)
    /\ \A k \in 1..Len(w) : LowerChar(s[i + k - 1]) = w[k]

\* the first position from i on where the run of characters of class C ends
RunEnd(s, i, C(_)) ==
    IF \E k \in i..Len(s) : ~C(s[k])
    THEN CHOOSE k \in i..Len(s) : ~C(s[k]) /\ \A j \in i..(k - 1) : C(s[j])
    ELSE Len(s) + 1
IsDigit(c) == c \in Digits
NotSpace(c) == c # " "
NotQuote(c) == c # "\""

\* the operator names of the regex, (ext|path|title|size)
OperatorNames == <<<<"e", "x", "t">>, <<"p", "a", "t", "h">>, <<"t", "i", "t", "l", "e">>, <<"s", "i", "z", "e">>>>
\* the units of the regex in its order of preference, (MB|KB|GB|B)
UnitNames == <<<<"m", "b">>, <<"k", "b">>, <<"g", "b">>, <<"b">>>>
NoGroup == [some |-> FALSE, val |-> <<>>]
Group(v) == [some |-> TRUE, val |-> v]

\* first alternative after the colon at j: ([<>]?)(\d+(?:\.\d+)?)(MB|KB|GB|B)?
\* [<>]? takes one character or none
SignLen(s, j) == IF j <= Len(s) /\ s[j] \in {"<", ">"} THEN 1 ELSE 0
\* (?:\.\d+)? after the digits that end at d2
FractionEnd(s, d2) ==
    IF d2 + 1 <= Len(s) /\ s[d2] = "." /\ IsDigit(s[d2 + 1])
    THEN RunEnd(s, d2 + 1, IsDigit) ELSE d2
\* (MB|KB|GB|B)? at d3: the first unit of the list that stands there
UnitAt(s, d3) ==
    LET units == {u \in 1..Len(UnitNames) : StandsAtNoCase(s, d3, UnitNames[u])}
    IN  IF units = {} THEN <<>>
        ELSE UnitNames[CHOOSE u \in units : \A v \in units : u <= v]
\* the match with the digits from d1 to d3 and the unit found
NumberMatch(s, j, d1, d3, unit) ==
    IF d1 <= Len(s) /\ IsDigit(s[d1])
    THEN [ok |-> TRUE, end |-> d3 + Len(unit),
          g2 |-> Group(Slice(s, j, d1)), g3 |-> Group(Slice(s, d1, d3)),
          g4 |-> IF unit = <<>> THEN NoGroup ELSE Group(Slice(s, d3, d3 + Len(unit))),
          g5 |-> NoGroup, g6 |-> NoGroup]
    ELSE [ok |-> FALSE]
NumberTo(s, j, d1, d3) == NumberMatch(s, j, d1, d3, UnitAt(s, d3))
NumberFrom(s, j, d1) == NumberTo(s, j, d1, FractionEnd(s, RunEnd(s, d1, IsDigit)))
NumberAt(s, j) == NumberFrom(s, j, j + SignLen(s, j))

\* second alternative: "([^"]*)"
QuotedAt(s, j) ==
    LET close == RunEnd(s, j + 1, NotQuote)
    IN  IF j <= Len(s) /\ s[j] = "\"" /\ close <= Len(s)
        THEN [ok |-> TRUE, end |-> close + 1, g2 |-> NoGroup, g3 |-> NoGroup,
              g4 |-> NoGroup, g5 |-> Group(Slice(s, j + 1, close)), g6 |-> NoGroup]
        ELSE [ok |-> FALSE]

\* third alternative: (\S+)
WordAt(s, j) ==
    LET e == RunEnd(s, j, NotSpace)
    IN  IF j <= Len(s) /\ NotSpace(s[j])
        THEN [ok |-> TRUE, end |-> e, g2 |-> NoGroup, g3 |-> NoGroup,
              g4 |-> NoGroup, g5 |-> NoGroup, g6 |-> Group(Slice(s, j, e))]
        ELSE [ok |-> FALSE]

\* the alternatives are tried in their order and the first that matches is
\* taken
Prefer(a, b) == IF a.ok THEN a ELSE b
Alternative(s, j) == Prefer(NumberAt(s, j), Prefer(QuotedAt(s, j), WordAt(s, j)))
\* the match of an operator name of length len at i with the alternative alt
MatchOf(s, i, len, alt) ==
    IF alt.ok
    THEN [ok |-> TRUE, start |-> i, end |-> alt.end,
          g0 |-> Slice(s, i, alt.end), g1 |-> Slice(s, i, i + len),
          g2 |-> alt.g2, g3 |-> alt.g3, g4 |-> alt.g4,
          g5 |-> alt.g5, g6 |-> alt.g6]
    ELSE [ok |-> FALSE]
MatchNamed(s, i, len) == MatchOf(s, i, len, Alternative(s, i + len + 1))

\* the match of operator_regex that starts at i, if there is one
MatchAt(s, i) ==
    LET names == {n \in 1..Len(OperatorNames) :
                    /\ StandsAtNoCase(s, i, OperatorNames[n])
                    /\ StandsAt(s, i + Len(OperatorNames[n]), <<":">>)}
    IN  IF names = {} THEN [ok |-> FALSE]
        ELSE MatchNamed(s, i, Len(OperatorNames[CHOOSE n \in names : TRUE]))

\* operator_regex.captures_iter(input): the leftmost matches, one after the
\* end of the other
RECURSIVE captures_iter(_, _)
captures_from(s, i, m) ==
    IF m.ok THEN <<m>> \o captures_iter(s, m.end) ELSE captures_iter(s, i + 1)
captures_iter(s, i) ==
    IF i > Len(s) THEN <<>> ELSE captures_from(s, i, MatchAt(s, i))

\* str::replace(pat, ""): every occurrence of pat, left to right, is removed
RECURSIVE Removing(_, _, _)
Removing(s, pat, i) ==
    IF i > Len(s) THEN <<>>
    ELSE IF StandsAt(s, i, pat) THEN Removing(s, pat, i + Len(pat))
    ELSE <<s[i]>> \o Removing(s, pat, i + 1)
replace(s, pat) == Removing(s, pat, 1)

\* trim_start_matches('.')
IsDot(c) == c = "."
trim_start_dots(v) == Slice(v, RunEnd(v, 1, IsDot), Len(v) + 1)

\* the number a string of digits denotes, and ten to the power k
RECURSIVE ToNum(_)
ToNum(ds) ==
    IF ds = <<>> THEN 0 ELSE 10 * ToNum(Slice(ds, 1, Len(ds))) + DigitVal(ds[Len(ds)])
RECURSIVE Pow10(_)
Pow10(k) == IF k = 0 THEN 1 ELSE 10 * Pow10(k - 1)

\* the unit's multiplier: GB, MB, KB, else 1
multiplier(g4) ==
    IF ~g4.some THEN 1
    ELSE IF to_lowercase(g4.val) = <<"g", "b">> THEN 1024 * 1024 * 1024
    ELSE IF to_lowercase(g4.val) = <<"m", "b">> THEN 1024 * 1024
    ELSE IF to_lowercase(g4.val) = <<"k", "b">> THEN 1024
    ELSE 1

\* (num * multiplier as f64) as u64 for the decimal number g3: the product,
\* truncated (the multipliers are powers of two, so the f64 product of the
\* numbers used here truncates to the same integer)
Scaled(int, frac, mult) ==
    ((ToNum(int) * Pow10(Len(frac)) + ToNum(frac)) * mult) \div Pow10(Len(frac))
size_bytes(g3, g4) ==
    LET dot == RunEnd(g3, 1, IsDigit)
    IN  Scaled(Slice(g3, 1, dot), Slice(g3, dot + 1, Len(g3) + 1), multiplier(g4))

\* value.parse::<u64>(): digits after an optional plus sign
parse_u64(v) ==
    LET ds == IF v # <<>> /\ v[1] = "+" THEN Tail(v) ELSE v
    IN  IF ds # <<>> /\ \A i \in 1..Len(ds) : IsDigit(ds[i])
        THEN [some |-> TRUE, val |-> ToNum(ds)]
        ELSE [some |-> FALSE, val |-> 0]

NoSize == [some |-> FALSE, val |-> 0]
Size(n) == [some |-> TRUE, val |-> n]

\* size with a comparison sign: ">" sets min_size, "<" sets max_size
SizeBound(st, op, bytes) ==
    [st EXCEPT !.min_size = IF op = <<">">> THEN Size(bytes) ELSE @,
               !.max_size = IF op = <<"<">> THEN Size(bytes) ELSE @]
\* size without one: the value is parsed as a whole number of bytes
BareSize(st, n) ==
    IF n.some
    THEN [st EXCEPT !.min_size = Size(n.val), !.max_size = Size(n.val + 1)]
    ELSE st
\* the value of the capture: group 5, else group 6, else ""
CapValue(cap) ==
    IF cap.g5.some THEN cap.g5.val
    ELSE IF cap.g6.some THEN cap.g6.val ELSE <<>>
\* the match arm of the operator
Taken(st, operator, value, cap) ==
    IF operator = <<"e", "x", "t">>
    THEN [st EXCEPT !.extension = Group(to_lowercase(trim_start_dots(value)))]
    ELSE IF operator = <<"p", "a", "t", "h">>
    THEN [st EXCEPT !.path_filter = Group(to_lowercase(value))]
    ELSE IF operator = <<"t", "i", "t", "l", "e">>
    THEN [st EXCEPT !.title_filter = Group(to_lowercase(value))]
    ELSE IF cap.g2.some
    THEN SizeBound(st, cap.g2.val, size_bytes(cap.g3.val, cap.g4))
    ELSE BareSize(st, parse_u64(value))

\* the body of the loop over the captures: one operator is taken up and its
\* text is removed from the remaining string
TakeOperator(st, cap) ==
    [Taken(st, to_lowercase(cap.g1), CapValue(cap), cap)
        EXCEPT !.remaining = replace(st.remaining, cap.g0)]

RECURSIVE TakeOperators(_, _)
TakeOperators(st, caps) ==
    IF caps = <<>> THEN st
    ELSE TakeOperators(TakeOperator(st, Head(caps)), Tail(caps))

\* split_whitespace().collect().join(" ")
RECURSIVE split_whitespace(_, _)
split_whitespace(s, i) ==
    IF i > Len(s) THEN <<>>
    ELSE IF s[i] = " " THEN split_whitespace(s, i + 1)
    ELSE LET e == RunEnd(s, i, NotSpace)
         IN  <<Slice(s, i, e)>> \o split_whitespace(s, e)
RECURSIVE join(_)
join(ws) ==
    IF ws = <<>> THEN <<>>
    ELSE IF Len(ws) = 1 THEN ws[1]
    ELSE ws[1] \o <<" ">> \o join(Tail(ws))

\* the ParsedQuery made of the filters taken and the text that remains
ParsedQuery(st, text_query) ==
    [text_query |-> IF text_query = <<>> THEN <<"*">> ELSE text_query,
     extension |-> st.extension,
     path_filter |-> st.path_filter,
     title_filter |-> st.title_filter,
     min_size |-> st.min_size,
     max_size |-> st.max_size,
     fuzzy |-> TRUE]
Finish(st) == ParsedQuery(st, join(split_whitespace(st.remaining, 1)))

\* ParsedQuery::parse(input)
parse(input) ==
    Finish(TakeOperators([extension |-> NoGroup, path_filter |-> NoGroup,
                          title_filter |-> NoGroup, min_size |-> NoSize,
                          max_size |-> NoSize, remaining |-> input],
                         captures_iter(input, 1)))

(***************************************************************************)
(* IndexSearcher::search on a query string with operators.                 *)
(***************************************************************************)
\* the words a query string is made of: operators in the forms of the
\* query language, and free text
QueryWords ==
    {<<"e", "x", "t", ":", "p", "d", "f">>,
     <<"e", "x", "t", ":", ".", "P", "D", "F">>,
     <<"p", "a", "t", "h", ":", "R", "e", "p", "o", "r", "t", "s">>,
     <<"s", "i", "z", "e", ":", "<", "1", "0", "M", "B">>,
     <<"s", "i", "z", "e", ":", ">", "1", "M", "B">>,
     <<"a", "n", "n", "u", "a", "l">>,
     <<"r", "e", "p", "o", "r", "t">>,
     <<"s", "i", "z", "e", ":", ">", "=", "1", "M", "B">>,
     <<"s", "i", "z", "e", ":", "<", "=", "2", "K", "B">>,
     <<"s", "i", "z", "e", ":", "1", "0", "0">>,
     <<"e", "x", "t", ":", "7", "z">>}

\* the (min_size, max_size) pairs the callers pass: run_cli, and the size
\* filters of the search page
SizeFilters ==
    {[min |-> NoSize, max |-> NoSize],
     [min |-> NoSize, max |-> Size(1024 * 1024)],
     [min |-> Size(1024 * 1024), max |-> Size(100 * 1024 * 1024)],
     [min |-> Size(100 * 1024 * 1024), max |-> NoSize]}

\* the documents of the index searched: file_path, size and content terms
SearchedDocs ==
    {[file_path |-> <<"a", ".", "p", "d", "f">>, size |-> 1024 * 1024,
      terms |-> {<<"a", "n", "n", "u", "a", "l">>, <<"r", "e", "p", "o", "r", "t">>}],
     [file_path |-> <<"B", ".", "P", "D", "F">>, size |-> 1024 * 1024 + 1,
      terms |-> {<<"a", "n", "n", "u", "a", "l">>}],
     [file_path |-> <<"c", ".", "t", "x", "t">>, size |-> 2 * 1024 * 1024,
      terms |-> {<<"r", "e", "p", "o", "r", "t">>}],
     [file_path |-> <<"d", ".", "m", "d">>, size |-> 100,
      terms |-> {<<"a", "n", "n", "u", "a", "l">>, <<"r", "e", "p", "o", "r", "t">>}]}

\* FuzzyTermQuery::new(term, 2, true): is b within k edits of a, an edit
\* being an insertion, a deletion, a substitution or a transposition
RECURSIVE WithinEdits(_, _, _)
WithinEdits(a, b, k) ==
    IF a = <<>> THEN Len(b) <= k
    ELSE IF b = <<>> THEN Len(a) <= k
    ELSE IF Head(a) = Head(b) THEN WithinEdits(Tail(a), Tail(b), k)
    ELSE /\ k > 0
         /\ \/ WithinEdits(Tail(a), b, k - 1)
            \/ WithinEdits(a, Tail(b), k - 1)
            \/ WithinEdits(Tail(a), Tail(b), k - 1)
            \/ /\ Len(a) >= 2 /\ Len(b) >= 2
               /\ a[1] = b[2] /\ a[2] = b[1]
               /\ WithinEdits(Tail(Tail(a)), Tail(Tail(b)), k - 1)

\* build_fuzzy_query for a text without a quoted phrase: "*" or nothing
\* matches all, else every term must match a content term exactly or
\* within two edits
build_fuzzy_query(text_query, doc) ==
    LET terms == split_whitespace(text_query, 1)
    IN  \/ terms = <<>>
        \/ terms = <<<<"*">>>>
        \/ \A i \in 1..Len(terms) :
              \E t \in doc.terms : t = terms[i] \/ WithinEdits(terms[i], t, 2)

\* the size clauses: RangeQuery with Bound::Included at both ends
size_filters(min_size, max_size, doc) ==
    /\ min_size.some => doc.size >= min_size.val
    /\ max_size.some => doc.size <= max_size.val

\* IndexSearcher::search(query, limit, min_size, max_size, None) on an
\* empty cache, for a limit no smaller than the index: the text query of
\* the parsed string combined with the size clauses of the arguments
searched(docs, parsed, min_size, max_size) ==
    [parsed |-> parsed,
     results |-> {d \in docs :
                    /\ build_fuzzy_query(parsed.text_query, d)
                    /\ size_filters(min_size, max_size, d)}]
search_query(docs, query, min_size, max_size) ==
    searched(docs, parse(query), min_size, max_size)

NoQueryIn == [words |-> <<>>, sizes |-> [min |-> NoSize, max |-> NoSize]]
NoQueryOut == [called |-> FALSE, parsed |-> parse(<<>>), results |-> {}]
NoQuery == qIn = NoQueryIn /\ qOut = NoQueryOut

\* the search call under study is made
SearchQuery ==
    /\ ~qOut.called
    /\ qOut' = [called |-> TRUE] @@ search_query(SearchedDocs, join(qIn.words),
                                                 qIn.sizes.min, qIn.sizes.max)
    /\ UNCHANGED <<fsVars, catalog, indexVars, readVars, scanVars, walkVars,
                   chanVars, writerVars, watchVars, searchVars, shutdown,
                   faultVars, openVars, watchSet, progVars, callVars, fnVars, qIn, hist,
                   mutexVars, settingsVars>>

(***************************************************************************)
(* IndexWriterManager: the Mutex<IndexWriter> shared by the scanner's      *)
(* writer thread and the watcher's processor, one step per lock, per       *)
(* document handed to tantivy and per return.                              *)
(***************************************************************************)
\* the threads that hold an Arc<IndexManager> and write through it
Threads == {"scan", "watch"}
WriterOps == {"add_document", "add_documents_batch", "commit"}
Idle == [op |-> "none", docs |-> <<>>, at |-> 0, pc |-> "idle", no |-> 0]

\* the argument lists of a call: one document, a batch, or nothing
DocsOf(op) ==
    IF op = "add_document" THEN {<<p>> : p \in Paths}
    ELSE IF op = "add_documents_batch" THEN SeqsUpTo(Paths, BATCH_SIZE)
    ELSE {<<>>}

besidesWriter == <<fsVars, catalog, indexVars, readVars, scanVars, walkVars,
                   chanVars, writerVars, watchVars, searchVars, shutdown,
                   faultVars, openVars, watchSet, progVars, callVars, fnVars,
                   queryVars, settingsVars, hist>>

\* a slip that would go on without the mutex
AcquiredAlways(owner) == TRUE

\* self.writer.lock() returns once no other thread holds the guard
Acquired(owner) == owner = "none"

\* a thread calls add_document, add_documents_batch or commit; an empty
\* batch returns Ok(()) before the lock is taken
WriterEnter(t, op, docs) ==
    /\ wCallsLeft > 0
    /\ wCall[t].pc = "idle"
    /\ wCallsLeft' = wCallsLeft - 1
    /\ wCall' = IF op = "add_documents_batch" /\ docs = <<>>
                THEN wCall
                ELSE [wCall EXCEPT ![t] =
                        [op |-> op, docs |-> docs, at |-> 0, pc |-> "lock",
                         no |-> MaxWriterCalls - wCallsLeft + 1]]
    /\ UNCHANGED <<wOwner, wLog, besidesWriter>>

\* "let writer = self.writer.lock()"
WriterLock(t) ==
    /\ wCall[t].pc = "lock"
    /\ Acquired(wOwner)
    /\ wOwner' = t
    /\ wCall' = [wCall EXCEPT ![t].pc = "held"]
    /\ UNCHANGED <<wLog, wCallsLeft, besidesWriter>>

\* under the guard: writer.add_document(doc) for the next document, or
\* writer.commit(); an Err leaves the function through "?"
WriterStep(t, ok) ==
    /\ wCall[t].pc = "held"
    /\ LET c == wCall[t]
           last == c.op = "commit" \/ c.at + 1 = Len(c.docs)
       IN  /\ wLog' = IF ~ok THEN wLog
                      ELSE Append(wLog,
                             [by |-> t, no |-> c.no,
                              what |-> IF c.op = "commit" THEN "commit" ELSE "add",
                              doc |-> IF c.op = "commit" THEN 0 ELSE c.docs[c.at + 1]])
           /\ wCall' = [wCall EXCEPT ![t].at = IF ok THEN c.at + 1 ELSE c.at,
                                     ![t].pc = IF ok /\ ~last THEN "held" ELSE "ret"]
    /\ UNCHANGED <<wOwner, wCallsLeft, besidesWriter>>

\* the function returns and the MutexGuard is dropped
WriterReturn(t) ==
    /\ wCall[t].pc = "ret"
    /\ wOwner' = "none"
    /\ wCall' = [wCall EXCEPT ![t] = Idle]
    /\ UNCHANGED <<wLog, wCallsLeft, besidesWriter>>

\* no thread is in a call of the writer, and none will be
NoWriterCalls ==
    /\ wOwner = "none"
    /\ wCall = [t \in Threads |-> Idle]
    /\ wLog = <<>>
    /\ wCallsLeft = 0

(***************************************************************************)
(* commands::settings::add_search_history.                                 *)
(***************************************************************************)
Queries == 1..NumQueries
NoHistoryCall == [called |-> FALSE, query |-> 0, ok |-> FALSE]

besidesSettings == <<fsVars, catalog, indexVars, readVars, scanVars, walkVars,
                     chanVars, writerVars, watchVars, searchVars, shutdown,
                     faultVars, openVars, watchSet, progVars, callVars, fnVars,
                     queryVars, mutexVars, hist>>

\* "for item in &mut history { if item.query == query { .. break; } }": the
\* first item of the query gets frequency + 1 and the time of the call
Bumped(history, query, now) ==
    LET first == CHOOSE i \in 1..Len(history) :
                    /\ history[i].query = query
                    /\ \A j \in 1..(i - 1) : history[j].query # query
    IN  [history EXCEPT ![first] = [query |-> query,
                                    frequency |-> history[first].frequency + 1,
                                    last_used |-> now]]

\* history.insert(0, SearchHistoryItem { query, frequency: 1, last_used })
Inserted0(history, query, now) ==
    <<[query |-> query, frequency |-> 1, last_used |-> now]>> \o history

\* history.sort_by(|a, b| b.frequency.cmp(&a.frequency)): a stable sort,
\* highest frequency first
RECURSIVE sort_by_frequency(_)
sort_by_frequency(history) ==
    IF history = <<>> THEN <<>>
    ELSE LET top == CHOOSE i \in 1..Len(history) :
                       /\ \A j \in 1..Len(history) :
                             history[j].frequency <= history[i].frequency
                       /\ \A j \in 1..(i - 1) :
                             history[j].frequency < history[i].frequency
             rest == [k \in 1..(Len(history) - 1) |->
                        IF k < top THEN history[k] ELSE history[k + 1]]
         IN  <<history[top]>> \o sort_by_frequency(rest)

\* history.truncate(50)
truncate(history) ==
    IF Len(history) > HistoryCap THEN SubSeq(history, 1, HistoryCap) ELSE history

\* the history add_search_history(query) stores, from the one it loaded
added_history(history, query, now) ==
    truncate(sort_by_frequency(
        IF \E i \in 1..Len(history) : history[i].query = query
        THEN Bumped(history, query, now)
        ELSE Inserted0(history, query, now)))

\* one call: load, update, save_settings; load or save may fail, and then
\* the stored settings are as before and the call returns Err
AddSearchHistory(query, failAt) ==
    /\ hsLeft > 0
    /\ hsLeft' = hsLeft - 1
    /\ search_history' =
          IF failAt = "none"
          THEN added_history(search_history, query, MaxHistoryOps - hsLeft + 1)
          ELSE search_history
    /\ hsRet' = [called |-> TRUE, query |-> query, ok |-> failAt = "none"]
    /\ UNCHANGED besidesSettings

\* settings without a search history (search_history: None), no calls
NoHistory ==
    /\ search_history = <<>>
    /\ hsRet = NoHistoryCall
    /\ hsLeft = 0

AllKinds == {"parse", "read", "write", "commit", "remove", "io", "add", "lock",
             "watch"}
Outcomes(kind) ==
    IF faultsLeft > 0 /\ kind \in faultKinds THEN {TRUE, FALSE} ELSE {TRUE}
Cost(ok) == IF ok THEN 0 ELSE 1

EmptyHist ==
    [parses |-> {},                                   \* parse_file calls
     parseCnt |-> [n \in 1..MaxScans |-> [p \in Paths |-> 0]],
     lastChange |-> [p \in Paths |-> 0],             \* scanNo at last fs change
     recvd |-> {},                                    \* tasks the writer received
     addCount |-> [p \in Paths |-> 0],               \* add_batch calls per task
     covered |-> {},                                  \* tasks followed by a commit call
     commitFailed |-> {},                             \* tasks whose commit failed
     parseFailed |-> {},                              \* paths whose parse failed
     flushCommitOk |-> TRUE,                          \* outcome of the flush's commit
     recordedAfterFail |-> {},                        \* recorded although commit failed
     metaFailed |-> {},                               \* tasks whose catalog write failed
     wGen |-> 0,                                      \* generation of the writer's last commit
     doneGen |-> 0,                                   \* newest commit whose caller finished
     removeSeen |-> {},                               \* deleted indexed files whose Remove event was handled
     ticked |-> {},                                   \* ... and a watcher tick has run since
     prevStart |-> [k \in Keys |-> -1],                          \* key -> commitGen when last searched
     sChanged |-> FALSE,                              \* the call in flight follows a commit
     sStartGen |-> 0,                                 \* commitGen when it began
     servedStaleCache |-> FALSE,                      \* a stale cache entry was returned
     servedStaleSnapshot |-> FALSE,                   \* a stale snapshot was searched
     rGen |-> 0,                                      \* generation of the rebuild's commit
     noRecAt |-> [n \in 1..MaxScans |-> {}],          \* paths without a record when scan n began
     discovered |-> {},                               \* paths the walker sent in this scan
     processed |-> {},                                \* paths process_file was called on in this scan
     fresh |-> {},                                    \* ... that needed no re-index
     failedNow |-> {},                                \* ... whose stat or parse failed
     tasked |-> {},                                   \* ... that produced an IndexTask
     readErrAt |-> [n \in 1..MaxScans |-> {}],        \* paths whose catalog read failed in scan n
     metaFailedAt |-> [n \in 1..MaxScans |-> {}],     \* paths whose catalog batch write failed in scan n
     tickFailed |-> FALSE,                            \* a step of some tick has failed
     tickAfterFailure |-> FALSE,                      \* a tick has handled events after that
     lastUpdate |-> [called |-> FALSE, before |-> {}, target |-> {}],  \* last update_watch_list call
     opened |-> {},                                   \* IndexManager::open calls of restarts
     wipedDocs |-> {},                                \* paths indexed and unchanged when open wiped the index
     wipeScan |-> 0,                                  \* scanNo at that wipe
     wipeFsLeft |-> 0,                                \* fsLeft at that wipe
     fnOp |-> [op |-> "none", before |-> <<>>, ret |-> <<>>], \* last call of the filename index
     content |-> {},                                   \* Content events queued in this scan
     contentEnd |-> {},                                \* ... the final one
     unblocked |-> FALSE,                             \* the writer has taken a task from a full channel with paths queued
     raced |-> {},                                    \* paths a tick indexed while the scan had them in flight
     created |-> [p \in Paths |-> 0],                 \* buffer entries the callback has created, by path
     handled |-> [p \in Paths |-> 0],                 \* entries a tick has handled, by path
     late |-> {},                                     \* paths buffered while a tick was at work
     fnSave |-> [some |-> FALSE, data |-> <<>>],       \* last snapshot handed to a save thread
     fnCleared |-> FALSE,                              \* clear was called
     lastTick |-> [ran |-> FALSE, applied |-> FALSE, commits |-> 0,
                   ok |-> TRUE, invalidated |-> FALSE, left |-> 0], \* the last working tick
     shutdownScan |-> 0,                              \* the scan that Ctrl-C interrupted
     enqAfterShutdown |-> {}]                         \* paths enqueued after that

\* the state after setup_app, with the budgets of the environment
InitCore(kinds, nFaults, nFsOps, nScans, nSearches, withProgress) ==
    /\ fs = [p \in Paths |-> [mtime |-> 1, size |-> 1]]
    /\ fsLeft = nFsOps
    /\ events = {}
    /\ catalog = [p \in Paths |-> NoRec]
    /\ committed = EmptyIndex
    /\ pending = <<>>
    /\ commitGen = 0
    /\ reader = [idx |-> EmptyIndex, gen |-> 0]
    /\ cache = [k \in Keys |-> NoEntry]
    /\ scanning = FALSE
    /\ scanNo = 0
    /\ scansLeft = nScans
    /\ rpc = "idle"
    /\ visited = {}
    /\ walkerDone = FALSE
    /\ pathQueue = {}
    /\ uncounted = {}
    /\ taskChan = <<>>
    /\ taskClosed = FALSE
    /\ doc_batch = <<>>
    /\ meta_batch = <<>>
    /\ wpc = "idle"
    /\ wfinal = FALSE
    /\ watching = FALSE
    /\ buffer = [p \in Paths |-> "None"]
    /\ taken = [p \in Paths |-> "None"]
    /\ tickpc = "sleep"
    /\ poisoned = FALSE
    /\ watchSet = {}
    /\ progress = 0
    /\ progressOn = withProgress
    /\ lost = FALSE
    /\ total = 0
    /\ processed = 0
    /\ searchesLeft = nSearches
    /\ spc = "idle"
    /\ skey = 0
    /\ sres = {}
    /\ shutdown = FALSE
    /\ faultsLeft = nFaults
    /\ faultKinds = kinds
    /\ schemaFile = VersionFile(SCHEMA_VERSION)
    /\ metaJson = TRUE
    /\ openResult = "ok"
    /\ opensLeft = MaxOpens
    /\ hist = EmptyHist

\* ... with no catalog query under study
InitState(kinds, nFaults, nFsOps, nScans, nSearches, withProgress) ==
    /\ InitCore(kinds, nFaults, nFsOps, nScans, nSearches, withProgress)
    /\ NoWriterCalls
    /\ NoHistory
    /\ NoNames
    /\ NoQuery
    /\ callArgs = NoArgs
    /\ callRet = NoRet

\* ... with a Scanner that reports no progress
InitWith(kinds, nFaults, nFsOps, nScans, nSearches) ==
    InitState(kinds, nFaults, nFsOps, nScans, nSearches, FALSE)

Init == InitWith(AllKinds, MaxFaults, MaxFsOps, MaxScans, 0)

\* scans over a changing filesystem, no failures
InitChange == InitWith({}, 0, MaxFsOps, MaxScans, 0)

\* scans in which only the index commit may fail
InitCommitFail == InitWith({"commit"}, MaxFaults, MaxFsOps, MaxScans, 0)

\* a single scan, interrupted or not
InitShutdown == InitWith({}, 0, 0, 1, 0)

\* a single scan, then the watcher
InitWatch == InitWith(AllKinds, MaxFaults, MaxFsOps, 1, 0)

\* a single scan with searches, no failures
InitSearch == InitWith({}, 0, 0, 1, MaxSearches)

\* scans, rebuilds and searches, no failures
InitRebuild == InitWith({}, 0, 0, MaxScans, 1)

(***************************************************************************)
(* Environment: the filesystem and the Ctrl-C signal.                      *)
(***************************************************************************)
\* notify events: a kind and the path it concerns
EventSet == [kind : {"Create", "Modify", "Remove"}, path : Paths]

\* the notify event a filesystem operation raises while a watcher is installed
Raised(kind, p) ==
    IF watching THEN events \cup {[kind |-> kind, path |-> p]} ELSE events

FsWrite(p, f) ==
    /\ fsLeft > 0
    /\ f # fs[p]
    /\ fs' = [fs EXCEPT ![p] = f]
    /\ fsLeft' = fsLeft - 1
    /\ events' = Raised(IF fs[p] = NoFile THEN "Create" ELSE "Modify", p)
    /\ hist' = [hist EXCEPT !.lastChange[p] = scanNo]
    /\ UNCHANGED <<catalog, indexVars, readVars, scanVars, walkVars, chanVars,
                   writerVars, watchVars, searchVars, shutdown, faultVars,
                   openVars, watchSet, progVars, callVars, fnVars, queryVars,
                   mutexVars, settingsVars>>

FsDelete(p) ==
    /\ fsLeft > 0
    /\ fs[p] # NoFile
    /\ fs' = [fs EXCEPT ![p] = NoFile]
    /\ fsLeft' = fsLeft - 1
    /\ events' = Raised("Remove", p)
    /\ hist' = [hist EXCEPT !.lastChange[p] = scanNo]
    /\ UNCHANGED <<catalog, indexVars, readVars, scanVars, walkVars, chanVars,
                   writerVars, watchVars, searchVars, shutdown, faultVars,
                   openVars, watchSet, progVars, callVars, fnVars, queryVars,
                   mutexVars, settingsVars>>

\* main: the ctrlc handler stores true into SHUTDOWN_FLAG
CtrlC ==
    /\ ~shutdown
    /\ shutdown' = TRUE
    /\ hist' = [hist EXCEPT !.shutdownScan = IF scanning THEN scanNo ELSE 0]
    /\ UNCHANGED <<fsVars, catalog, indexVars, readVars, scanVars, walkVars,
                   chanVars, writerVars, watchVars, searchVars, faultVars,
                   openVars, watchSet, progVars, callVars, fnVars, queryVars,
                   mutexVars, settingsVars>>

(***************************************************************************)
(* Progress events (tokio mpsc channel, ProgressEvent).                    *)
(***************************************************************************)
\* a slip that would queue the event whatever the channel holds
try_send_unbounded(n) == n + 1

\* Sender::try_send on a channel holding n events: queued if there is
\* room, otherwise Err(Full) and the event is gone
try_send(n) == IF n < ProgressCap THEN n + 1 ELSE n

\* "if let Some(tx) = &tx { let _ = tx.try_send(..) }" when a report is due
Report(due) ==
    /\ progress' = IF progressOn /\ due THEN try_send(progress) ELSE progress
    /\ lost' = (lost \/ (progressOn /\ due /\ progress >= ProgressCap))
    /\ UNCHANGED progressOn

\* the Content event the writer's try_send queues when one is due: the
\* tasks it has processed and the total it read (or, at the end, processed)
Content(due, done, of) ==
    IF progressOn /\ due /\ progress < ProgressCap
    THEN {[processed |-> done, total |-> of]} ELSE {}

\* the UI takes one event from the channel (Message::PollProgressResult)
ProgressRecv ==
    /\ progress > 0
    /\ progress' = progress - 1
    /\ UNCHANGED <<fsVars, catalog, indexVars, readVars, scanVars, walkVars,
                   chanVars, writerVars, watchVars, searchVars, shutdown,
                   faultVars, openVars, watchSet, progressOn, lost, total,
                   processed, hist, callVars, fnVars, queryVars, mutexVars,
                   settingsVars>>

(***************************************************************************)
(* Scanner::scan_directory.                                                *)
(***************************************************************************)
\* the state scan_directory sets up before its three stages run
ScanSetup ==
    /\ scanning' = TRUE
    /\ scanNo' = scanNo + 1
    /\ scansLeft' = scansLeft - 1
    /\ visited' = {}
    /\ walkerDone' = FALSE
    /\ pathQueue' = {}
    /\ uncounted' = {}
    /\ taskChan' = <<>>
    /\ taskClosed' = FALSE
    /\ doc_batch' = <<>>
    /\ meta_batch' = <<>>
    /\ wpc' = "recv"
    /\ wfinal' = FALSE
    /\ total' = 0
    /\ processed' = 0
    /\ hist' = [hist EXCEPT !.recvd = {}, !.addCount = [p \in Paths |-> 0],
                            !.covered = {}, !.commitFailed = {},
                            !.discovered = {}, !.processed = {}, !.fresh = {},
                            !.content = {}, !.contentEnd = {},
                            !.failedNow = {}, !.tasked = {},
                            !.noRecAt[scanNo + 1] = {p \in Paths : catalog[p] = NoRec},
                            !.enqAfterShutdown = {}]

\* commands::start_scan: a plain scan of the root
ScanStart ==
    /\ openResult = "ok"                  \* setup_app returned the AppState
    /\ ~scanning /\ rpc = "idle"
    /\ scansLeft > 0
    /\ ScanSetup
    /\ UNCHANGED <<fsVars, catalog, indexVars, readVars, rpc, watchVars,
                   searchVars, shutdown, faultVars, openVars, watchSet,
                   progress, progressOn,
                   lost, callVars, fnVars, queryVars, mutexVars, settingsVars>>

\* Stage 1: a walker thread visits one directory entry; a regular file is
\* sent on the path channel ("let _ = path_tx.send(path);")
WalkVisit(p) ==
    /\ scanning /\ ~walkerDone
    /\ p \notin visited
    /\ visited' = visited \cup {p}
    /\ IF fs[p] # NoFile
       THEN /\ pathQueue' = pathQueue \cup {p}
            /\ uncounted' = uncounted \cup {p}
            /\ hist' = [hist EXCEPT
                          !.discovered = @ \cup {p},
                          !.enqAfterShutdown =
                              IF shutdown /\ hist.shutdownScan = scanNo
                              THEN @ \cup {p} ELSE @]
       ELSE UNCHANGED <<pathQueue, uncounted, hist>>
    /\ UNCHANGED <<fsVars, catalog, indexVars, readVars, scanVars, walkerDone,
                   chanVars, writerVars, watchVars, searchVars, shutdown, faultVars,
                   openVars, watchSet, progVars, callVars, fnVars, queryVars,
                   mutexVars, settingsVars>>

\* ... and then counts it: "let count = total.fetch_add(1, ..)", with a
\* progress event on every WalkEvery-th file
WalkCount(p) ==
    /\ scanning /\ ~walkerDone
    /\ p \in uncounted
    /\ uncounted' = uncounted \ {p}
    /\ total' = total + 1
    /\ Report(total % WalkEvery = 0)
    /\ UNCHANGED <<fsVars, catalog, indexVars, readVars, scanVars, visited,
                   walkerDone, pathQueue, chanVars, writerVars, watchVars,
                   searchVars, shutdown, faultVars, hist, openVars, watchSet,
                   processed, callVars, fnVars, queryVars, mutexVars,
                   settingsVars>>

\* every walker thread has returned: the final count is reported and the
\* senders of the path channel are dropped
WalkDone ==
    /\ scanning /\ ~walkerDone
    /\ visited = Paths /\ uncounted = {}
    /\ walkerDone' = TRUE
    /\ Report(TRUE)                               \* "Filename scan complete"
    /\ UNCHANGED <<fsVars, catalog, indexVars, readVars, scanVars, visited,
                   pathQueue, uncounted, chanVars, writerVars, watchVars,
                   searchVars, shutdown, faultVars, hist, openVars, watchSet,
                   total, processed, callVars, fnVars, queryVars, mutexVars,
                   settingsVars>>

\* a slip that would end the parse stage at the first file that fails
RestOfQueueAbort(queue, p, ok) == IF ok THEN queue \ {p} ELSE {}

\* "for_each(|path| { if let Some(task) = process_file(..) { send } })": the
\* closure returns and the stage goes on with the paths that remain
RestOfQueue(queue, p, ok) == queue \ {p}

\* Scanner::process_file on one queued path (Stage 2a, one rayon worker):
\* stat, stale check, parse, then send the IndexTask on the task channel
ParseFile(p) ==
    /\ scanning
    /\ p \in pathQueue
    /\ IF fs[p] = NoFile
       THEN /\ pathQueue' = RestOfQueue(pathQueue, p, FALSE)   \* metadata(path).ok()?
            /\ hist' = [hist EXCEPT !.processed = @ \cup {p},
                                    !.failedNow = @ \cup {p}]
            /\ UNCHANGED <<taskChan, faultsLeft>>
       ELSE \E readOk \in Outcomes("read"), parseOk \in Outcomes("parse") :
            LET modified == fs[p].mtime
                size == fs[p].size
                stale == IF readOk THEN needs_reindex(catalog, p, modified, size)
                         ELSE TRUE                          \* unwrap_or(true)
                call == [path |-> p, by |-> "scan",
                         hadRec |-> catalog[p] # NoRec,
                         same |-> catalog[p] = [modified |-> modified, size |-> size],
                         readErr |-> ~readOk]
            IN  /\ Cost(readOk) + Cost(parseOk) <= faultsLeft
                /\ pathQueue' = RestOfQueue(pathQueue, p, parseOk)
                /\ IF ~stale
                   THEN /\ parseOk
                        /\ faultsLeft' = faultsLeft - Cost(readOk)
                        /\ hist' = [hist EXCEPT !.processed = @ \cup {p},
                                                !.fresh = @ \cup {p}]
                        /\ UNCHANGED taskChan
                   ELSE /\ faultsLeft' = faultsLeft - (Cost(readOk) + Cost(parseOk))
                        /\ hist' = [hist EXCEPT
                              !.parses = @ \cup {call},
                              !.parseCnt[scanNo][p] = @ + 1,
                              !.parseFailed = IF parseOk THEN @ ELSE @ \cup {p},
                              !.readErrAt[scanNo] = IF readOk THEN @ ELSE @ \cup {p},
                              !.processed = @ \cup {p},
                              !.failedNow = IF parseOk THEN @ ELSE @ \cup {p},
                              !.tasked = IF parseOk THEN @ \cup {p} ELSE @]
                        /\ IF parseOk
                           THEN /\ Len(taskChan) < TaskChanCap
                                /\ taskChan' = Append(taskChan,
                                      [path |-> p, modified |-> modified, size |-> size])
                           ELSE UNCHANGED taskChan
    /\ UNCHANGED <<fsVars, catalog, indexVars, readVars, scanVars, visited,
                   walkerDone, uncounted, taskClosed, writerVars, watchVars, searchVars,
                   shutdown, faultKinds, openVars, watchSet, progVars,
                   callVars, fnVars, queryVars, mutexVars, settingsVars>>

\* a slip that would keep a sender of the path channel in scan_directory
\* itself, alive until the stages have been awaited
SenderKept == FALSE

\* path_tx is moved into the walker's closure and cloned per walker thread:
\* when the walker task has ended, no sender of the path channel is left
SendersDropped == walkerDone

\* path_rx is exhausted and closed: the parser closure ends, dropping task_tx
ParserDone ==
    /\ scanning /\ SendersDropped /\ ~taskClosed
    /\ pathQueue = {}
    /\ taskClosed' = TRUE
    /\ UNCHANGED <<fsVars, catalog, indexVars, readVars, scanVars, walkVars,
                   taskChan, writerVars, watchVars, searchVars, shutdown,
                   faultVars, hist, openVars, watchSet, progVars, callVars,
                   fnVars, queryVars, mutexVars, settingsVars>>

BatchPaths(batch) == {batch[i].path : i \in 1..Len(batch)}

\* "if doc_batch.len() >= BATCH_SIZE"
FlushDue(batch) == Len(batch) >= BATCH_SIZE

\* a slip that would flush the remainder only when it is a full batch
RemainderPendingFull(batch) == Len(batch) >= BATCH_SIZE

\* "if !doc_batch.is_empty()"
RemainderPending(batch) == batch # <<>>

\* add_documents_batch as called by a flush, with the bookkeeping of the run
FlushAdd(batch) ==
    /\ pending' = add_documents_batch(pending, batch)
    /\ wpc' = "commit"

\* the task channel is full while the parse stage has a stale file queued,
\* whose task_tx.send(task) blocks
SendBlocked ==
    /\ Len(taskChan) >= TaskChanCap
    /\ \E p \in pathQueue :
          fs[p] # NoFile /\ needs_reindex(catalog, p, fs[p].mtime, fs[p].size)

\* Stage 2b: the writer takes one task; a full batch is handed to the index
WriterRecv ==
    /\ wpc = "recv"
    /\ taskChan # <<>>
    /\ LET task == Head(taskChan)
           docs == Append(doc_batch, task)
       IN  /\ taskChan' = Tail(taskChan)
           /\ doc_batch' = docs
           /\ meta_batch' = Append(meta_batch, task)
           /\ processed' = processed + 1
           /\ add_file(task.path)
           /\ IF FlushDue(docs)
              THEN /\ FlushAdd(docs)
                   /\ UNCHANGED <<progress, progressOn, lost>>
                   /\ hist' = [hist EXCEPT
                         !.recvd = @ \cup {task.path},
                         !.unblocked = @ \/ SendBlocked,
                         !.addCount = [p \in Paths |->
                             IF p \in BatchPaths(docs) THEN @[p] + 1 ELSE @[p]]]
              ELSE /\ UNCHANGED <<pending, wpc>>
                   /\ Report((processed + 1) % WriteEvery = 0)
                   /\ hist' = [hist EXCEPT
                         !.recvd = @ \cup {task.path},
                         !.unblocked = @ \/ SendBlocked,
                         !.content = @ \cup Content((processed + 1) % WriteEvery = 0,
                                                    processed + 1, total)]
    /\ UNCHANGED <<fsVars, catalog, committed, commitGen, readVars, scanVars,
                   walkVars, taskClosed, wfinal, watchVars, searchVars,
                   shutdown, faultVars, openVars, watchSet, total, callVars,
                   fnLeft, queryVars, mutexVars, settingsVars>>

\* the task channel is closed and drained: flush the remainder, if any
WriterClose ==
    /\ wpc = "recv"
    /\ taskChan = <<>> /\ taskClosed
    /\ IF RemainderPending(doc_batch)
       THEN /\ FlushAdd(doc_batch)
            /\ wfinal' = TRUE
            /\ UNCHANGED <<progress, progressOn, lost>>
            /\ hist' = [hist EXCEPT
                  !.addCount = [p \in Paths |->
                      IF p \in BatchPaths(doc_batch) THEN @[p] + 1 ELSE @[p]]]
       ELSE /\ wpc' = "done"
            /\ Report(TRUE)                       \* "All files indexed"
            /\ hist' = [hist EXCEPT
                  !.content = @ \cup Content(TRUE, processed, processed),
                  !.contentEnd = @ \cup Content(TRUE, processed, processed)]
            /\ UNCHANGED <<pending, wfinal>>
    /\ UNCHANGED <<fsVars, catalog, committed, commitGen, readVars, scanVars,
                   walkVars, chanVars, doc_batch, meta_batch, watchVars,
                   searchVars, shutdown, faultVars, openVars, watchSet,
                   total, processed, callVars, fnVars, queryVars, mutexVars,
                   settingsVars>>

\* IndexWriterManager::commit: publish the pending operations, or fail and
\* publish nothing (the operations may or may not survive in the writer)
CommitOutcome(ok, keep) ==
    IF ok
    THEN /\ committed' = ApplyOps(committed, pending)
         /\ pending' = <<>>
         /\ commitGen' = commitGen + 1
    ELSE /\ committed' = committed
         /\ pending' = IF keep THEN pending ELSE <<>>
         /\ commitGen' = commitGen

\* flush: "let _ = indexer_clone.commit();"
WriterCommit ==
    /\ wpc = "commit"
    /\ \E ok \in Outcomes("commit"), keep \in BOOLEAN :
        /\ ok => keep
        /\ CommitOutcome(ok, keep)
        /\ faultsLeft' = faultsLeft - Cost(ok)
        /\ hist' = [hist EXCEPT
              !.covered = @ \cup BatchPaths(doc_batch),
              !.commitFailed = IF ok THEN @ ELSE @ \cup BatchPaths(doc_batch),
              !.flushCommitOk = ok,
              !.wGen = IF ok THEN commitGen + 1 ELSE @]
    /\ wpc' = "inval"
    /\ UNCHANGED <<fsVars, catalog, readVars, scanVars, walkVars, chanVars,
                   doc_batch, meta_batch, wfinal, watchVars, searchVars,
                   shutdown, faultKinds, openVars, watchSet, progVars,
                   callVars, fnVars, queryVars, mutexVars, settingsVars>>

NoCache == [k \in Keys |-> NoEntry]

\* flush: "indexer_clone.invalidate_cache();"
WriterInvalidate ==
    /\ wpc = "inval"
    /\ cache' = NoCache
    /\ wpc' = "meta"
    /\ UNCHANGED <<fsVars, catalog, indexVars, reader, scanVars, walkVars,
                   chanVars, doc_batch, meta_batch, wfinal, watchVars,
                   searchVars, shutdown, faultVars, hist, openVars, watchSet,
                   progVars, callVars, fnVars, queryVars, mutexVars,
                   settingsVars>>

\* flush: "let _ = metadata_db_for_writer.batch_update_metadata(&meta_batch);"
\* then both batches are cleared (mid-scan) or dropped (final flush)
WriterMeta ==
    /\ wpc = "meta"
    /\ \E ok \in Outcomes("write") :
        /\ catalog' = IF ok THEN batch_update_metadata(catalog, meta_batch)
                      ELSE FailedWrite(catalog, meta_batch)
        /\ faultsLeft' = faultsLeft - Cost(ok)
        /\ hist' = [hist EXCEPT
              !.recordedAfterFail = IF ok /\ ~hist.flushCommitOk
                                    THEN @ \cup BatchPaths(meta_batch) ELSE @,
              !.metaFailed = IF ok THEN @ ELSE @ \cup BatchPaths(meta_batch),
              !.metaFailedAt[scanNo] =
                  IF ok THEN @ ELSE @ \cup BatchPaths(meta_batch),
              !.doneGen = IF hist.wGen > @ THEN hist.wGen ELSE @,
              !.content = @ \cup
                  (IF wfinal THEN Content(TRUE, processed, processed)
                   ELSE Content(processed % WriteEvery = 0, processed, total)),
              !.contentEnd = @ \cup
                  (IF wfinal THEN Content(TRUE, processed, processed) ELSE {})]
    /\ doc_batch' = <<>>
    /\ meta_batch' = <<>>
    /\ wpc' = IF wfinal THEN "done" ELSE "recv"
    /\ Report(wfinal \/ processed % WriteEvery = 0)
    /\ UNCHANGED <<fsVars, indexVars, readVars, scanVars, walkVars, chanVars,
                   wfinal, watchVars, searchVars, shutdown, faultKinds,
                   openVars, watchSet, total, processed, callVars, fnVars,
                   queryVars, mutexVars, settingsVars>>

\* the three stage handles are awaited and scan_directory returns Ok
ScanReturn ==
    /\ scanning /\ walkerDone /\ taskClosed
    /\ wpc = "done"
    /\ scanning' = FALSE
    /\ wpc' = "idle"
    /\ rpc' = "idle"
    /\ commit_names
    /\ hist' = IF rpc = "scan" /\ hist.rGen > hist.doneGen
               THEN [hist EXCEPT !.doneGen = hist.rGen] ELSE hist
    /\ UNCHANGED <<fsVars, catalog, indexVars, readVars, scanNo, scansLeft, walkVars,
                   chanVars, doc_batch, meta_batch, wfinal, watchVars,
                   searchVars, shutdown, faultVars, openVars, watchSet,
                   progVars, callVars, fnLeft, queryVars, mutexVars,
                   settingsVars>>

(***************************************************************************)
(* Watcher (WatcherManager).                                               *)
(***************************************************************************)
\* the directories of the watch list; the scanned root is one of them
Dirs == 1..NumDirs
RootDir == 1

\* the watch set update_watch_list leaves: "self.watcher = None" comes first,
\* an empty list returns at once, and an error of recommended_watcher or of
\* watch() returns through `?` before "self.watcher = Some(watcher)"
ActiveAfter(dirs, existing, failAt) ==
    IF dirs = {} \/ failAt # "none" THEN {} ELSE dirs \cap existing

\* WatcherManager::update_watch_list(dirs), of which the directories in
\* `existing` exist; creating the watcher or a watch() call may fail
update_watch_list(dirs, existing, failAt) ==
    /\ failAt \in {"none", "create", "watch"}
    /\ failAt # "none" => /\ dirs # {}
                          /\ "watch" \in faultKinds /\ faultsLeft > 0
    /\ failAt = "watch" => dirs \cap existing # {}
    /\ faultsLeft' = faultsLeft - (IF failAt = "none" THEN 0 ELSE 1)
    /\ watchSet' = ActiveAfter(dirs, existing, failAt)
    /\ watching' = (RootDir \in watchSet')
    /\ events' = {}
    /\ hist' = [hist EXCEPT !.lastUpdate =
                   [called |-> TRUE, before |-> watchSet,
                    target |-> dirs \cap existing]]
    /\ UNCHANGED <<fs, fsLeft, catalog, indexVars, readVars, scanVars, walkVars,
                   chanVars, writerVars, buffer, taken, tickpc, poisoned,
                   searchVars,
                   shutdown, faultKinds, openVars, progVars, callVars, fnVars,
                   queryVars, mutexVars, settingsVars>>

\* update_watch_list with the scanned root, or with an empty list
UpdateWatchList(nonEmpty) ==
    /\ watching # nonEmpty
    /\ update_watch_list(IF nonEmpty THEN {RootDir} ELSE {}, Dirs, "none")

\* the notify callback: Modify / Create / Remove on a path that is_file()
HandleEvent(e) ==
    /\ e \in events
    /\ events' = events \ {e}
    /\ IF ~poisoned /\ fs[e.path] # NoFile         \* lock() is Ok, path.is_file()
       THEN buffer' = [buffer EXCEPT ![e.path] =
                          IF e.kind = "Remove" THEN "Remove" ELSE "Index"]
       ELSE buffer' = buffer
    /\ hist' = [hist EXCEPT
          !.removeSeen = IF e.kind = "Remove" /\ fs[e.path] = NoFile
                            /\ LiveDocs(committed, e.path) > 0
                         THEN @ \cup {e.path} ELSE @,
          !.created = IF buffer[e.path] = "None" /\ buffer'[e.path] # "None"
                      THEN [@ EXCEPT ![e.path] = @ + 1] ELSE @,
          !.late = @ \cup (IF tickpc = "work" /\ buffer'[e.path] # "None"
                           THEN {e.path} ELSE {})]
    /\ UNCHANGED <<fs, fsLeft, catalog, indexVars, readVars, scanVars, walkVars,
                   chanVars, writerVars, watching, taken, tickpc, poisoned,
                   searchVars,
                   shutdown, faultVars, openVars, watchSet, progVars, callVars,
                   fnVars, queryVars, mutexVars, settingsVars>>

\* IndexWriterManager::remove_document: delete-by-term on file_path
RemoveOp(p) == [op |-> "del", path |-> p, modified |-> 0, size |-> 0]

RECURSIVE remove_documents(_, _)
remove_documents(pend, S) ==
    IF S = {} THEN pend
    ELSE LET p == CHOOSE x \in S : TRUE
         IN  remove_documents(Append(pend, RemoveOp(p)), S \ {p})

\* MetadataDb::remove_file for every path of S
remove_files(cat, S) == [p \in Paths |-> IF p \in S THEN NoRec ELSE cat[p]]

\* a set of tasks as a batch (the order within a tick's batch is immaterial)
RECURSIVE SeqOf(_)
SeqOf(S) ==
    IF S = {} THEN <<>>
    ELSE LET x == CHOOSE y \in S : TRUE IN <<x>> \o SeqOf(S \ {x})

Failures(f) == Cardinality({x \in DOMAIN f : ~f[x]})

\* a slip that would leave the loop when a step of the tick fails
AfterTickStop(failed) == IF failed THEN "dead" ELSE "sleep"

\* "loop { sleep(1000 ms); .. }": every path through the body, the error
\* arms included, falls through or continues to the next iteration
AfterTick(failed) == "sleep"

\* the paths the running scan has found stale and parsed, and whose
\* FileRecord its writer has not written yet
InFlight == BatchPaths(taskChan) \cup BatchPaths(meta_batch)

NoEvents == [p \in Paths |-> "None"]

\* a slip that would clone the events and leave them in the buffer
LeftInBuffer(guard) == guard

\* std::mem::take(&mut *guard): the buffer is left empty
TakenFrom(guard) == NoEvents

\* the head of an iteration of the background processor that finds events
\* buffered: lock, take the whole map, unlock
WatcherTake ==
    /\ tickpc = "sleep"
    /\ ~poisoned
    /\ buffer # NoEvents
    /\ taken' = buffer
    /\ buffer' = TakenFrom(buffer)
    /\ tickpc' = "work"
    /\ hist' = [hist EXCEPT !.ticked = @ \cup hist.removeSeen]
    /\ UNCHANGED <<fsVars, catalog, indexVars, readVars, scanVars, walkVars,
                   chanVars, writerVars, watching, poisoned, searchVars,
                   shutdown, faultVars, openVars, watchSet, progVars, callVars,
                   fnVars, queryVars, mutexVars, settingsVars>>

\* the rest of that iteration, on the events it took: apply the removes,
\* re-index the rest, commit once
WatcherTick ==
    /\ tickpc = "work"
    /\ LET remove_paths == {p \in Paths : taken[p] = "Remove"}
           index_paths == {p \in Paths : taken[p] = "Index"}
           \* reindex_single_file gets as far as the stale check
           present == {p \in index_paths : fs[p] # NoFile}
       IN  \E rmOk \in [remove_paths -> Outcomes("remove")],
              readOk \in [present -> Outcomes("read")],
              parseOk \in [present -> Outcomes("parse")],
              addOk \in Outcomes("add"),
              metaOk \in Outcomes("write"), commitOk \in Outcomes("commit"),
              keep \in BOOLEAN :
           LET removed == {p \in remove_paths : rmOk[p] /\ catalog[p] # NoRec}
               stale == {p \in present :
                           IF readOk[p]
                           THEN needs_reindex(catalog, p, fs[p].mtime, fs[p].size)
                           ELSE TRUE}
               parsed == {p \in stale : parseOk[p]}
               docs_to_add == SeqOf({[path |-> p, modified |-> fs[p].mtime,
                                      size |-> fs[p].size] : p \in parsed})
               cat1 == remove_files(catalog, {p \in remove_paths : rmOk[p]})
               pend1 == remove_documents(pending, remove_paths)
               pend2 == IF addOk THEN add_documents_batch(pend1, docs_to_add)
                        ELSE pend1
               needs_commit == removed # {} \/ docs_to_add # <<>>
               cost == Failures(rmOk) + Failures(readOk) + Failures(parseOk)
                       + Cost(addOk) + Cost(metaOk) + Cost(commitOk)
               calls == {[path |-> p, by |-> "watch",
                          hadRec |-> catalog[p] # NoRec,
                          same |-> catalog[p] = [modified |-> fs[p].mtime,
                                                 size |-> fs[p].size],
                          readErr |-> ~readOk[p]] : p \in stale}
           IN  /\ cost <= faultsLeft
               /\ \A p \in present \ stale : parseOk[p]
               /\ docs_to_add = <<>> => (metaOk /\ addOk)
               /\ ~needs_commit => commitOk
               /\ commitOk => keep
               /\ faultsLeft' = faultsLeft - cost
               /\ catalog' = IF docs_to_add # <<>> /\ metaOk
                             THEN batch_update_metadata(cat1, docs_to_add)
                             ELSE cat1
               /\ IF needs_commit
                  THEN /\ committed' = IF commitOk THEN ApplyOps(committed, pend2)
                                       ELSE committed
                       /\ pending' = IF commitOk \/ ~keep THEN <<>> ELSE pend2
                       /\ commitGen' = IF commitOk THEN commitGen + 1 ELSE commitGen
                       /\ cache' = IF commitOk THEN NoCache ELSE cache
                  ELSE /\ pending' = pend2
                       /\ UNCHANGED <<committed, commitGen, cache>>
               /\ hist' = [hist EXCEPT
                     !.parses = @ \cup calls,
                     !.raced = @ \cup
                         (IF addOk THEN parsed \cap InFlight ELSE {}),
                     !.handled = [p \in Paths |->
                                    IF taken[p] # "None" THEN @[p] + 1 ELSE @[p]],
                     !.tickFailed = @ \/ cost > 0,
                     !.tickAfterFailure = @ \/ hist.tickFailed,
                     !.lastTick = [ran |-> TRUE,
                                   applied |-> remove_paths # {} \/ docs_to_add # <<>>,
                                   commits |-> IF needs_commit THEN 1 ELSE 0,
                                   ok |-> cost = 0,
                                   invalidated |-> needs_commit /\ commitOk,
                                   left |-> IF needs_commit
                                            THEN (IF commitOk \/ ~keep THEN 0
                                                  ELSE Len(pend2))
                                            ELSE Len(pend2)],
                     !.doneGen = IF needs_commit /\ commitOk
                                 THEN commitGen + 1 ELSE @]
               /\ tickpc' = AfterTick(cost > 0)
    /\ taken' = NoEvents
    /\ UNCHANGED <<fsVars, reader, buffer, scanVars, walkVars, chanVars, writerVars,
                   watching, poisoned, searchVars, shutdown, faultKinds,
                   openVars, watchSet, progVars, callVars, fnVars, queryVars,
                   mutexVars, settingsVars>>

\* an iteration that finds the buffer empty: "continue"
WatcherIdleTick ==
    /\ tickpc = "sleep"
    /\ ~poisoned
    /\ \A p \in Paths : buffer[p] = "None"
    /\ hist.removeSeen \ hist.ticked # {}
    /\ hist' = [hist EXCEPT !.ticked = @ \cup hist.removeSeen]
    /\ UNCHANGED <<fsVars, catalog, indexVars, readVars, scanVars, walkVars,
                   chanVars, writerVars, watchVars, searchVars, shutdown,
                   faultVars, openVars, watchSet, progVars, callVars, fnVars,
                   queryVars, mutexVars, settingsVars>>

\* a thread panicked while it held the event_buffer lock
PoisonLock ==
    /\ ~poisoned
    /\ "lock" \in faultKinds /\ faultsLeft > 0
    /\ faultsLeft' = faultsLeft - 1
    /\ poisoned' = TRUE
    /\ UNCHANGED <<fsVars, catalog, indexVars, readVars, scanVars, walkVars,
                   chanVars, writerVars, watching, buffer, taken, tickpc,
                   searchVars,
                   shutdown, faultKinds, openVars, hist, watchSet, progVars,
                   callVars, fnVars, queryVars, mutexVars, settingsVars>>

\* an iteration that cannot lock the buffer: "Watcher lock poisoned", continue
WatcherPoisonedTick ==
    /\ tickpc = "sleep"
    /\ poisoned
    /\ ~hist.tickFailed
    /\ tickpc' = AfterTick(TRUE)
    /\ hist' = [hist EXCEPT !.tickFailed = TRUE]
    /\ UNCHANGED <<fsVars, catalog, indexVars, readVars, scanVars, walkVars,
                   chanVars, writerVars, watching, buffer, taken, poisoned,
                   searchVars,
                   shutdown, faultVars, openVars, watchSet, progVars, callVars,
                   fnVars, queryVars, mutexVars, settingsVars>>

(***************************************************************************)
(* Searcher (IndexSearcher, QueryCache) and the index reader.              *)
(***************************************************************************)
\* the file_paths a search with cache key k finds in an index generation:
\* match-all text query AND size in [min_size, u64::MAX] when min_size is set
Results(idx, k) ==
    {d.path : d \in {x \in DocSet : idx[x] > 0 /\ (k = 0 \/ x.size >= k)}}

\* ReloadPolicy::OnCommitWithDelay: the reader picks up the newest commit
ReaderReload ==
    /\ reader.gen # commitGen
    /\ reader' = [idx |-> committed, gen |-> commitGen]
    /\ UNCHANGED <<fsVars, catalog, indexVars, cache, scanVars, walkVars,
                   chanVars, writerVars, watchVars, searchVars, shutdown,
                   faultVars, hist, openVars, watchSet, progVars, callVars,
                   fnVars, queryVars, mutexVars, settingsVars>>

\* the cache's TTL or capacity bound drops an entry
CacheExpire(k) ==
    /\ cache[k].hit
    /\ cache' = [cache EXCEPT ![k] = NoEntry]
    /\ UNCHANGED <<fsVars, catalog, indexVars, reader, scanVars, walkVars,
                   chanVars, writerVars, watchVars, searchVars, shutdown,
                   faultVars, hist, openVars, watchSet, progVars, callVars,
                   fnVars, queryVars, mutexVars, settingsVars>>

\* a commit has completed since the previous search with key k began, and
\* no flush stands between its commit and its cache invalidation
ChangedSince(k) ==
    /\ hist.prevStart[k] >= 0
    /\ hist.prevStart[k] < commitGen
    /\ wpc # "inval"

\* search, up to the cache lookup: a hit returns the cached results
SearchStart(k) ==
    /\ spc = "idle"
    /\ searchesLeft > 0
    /\ searchesLeft' = searchesLeft - 1
    /\ IF cache[k].hit
       THEN /\ UNCHANGED <<spc, skey, sres>>
            /\ hist' = [hist EXCEPT
                  !.servedStaleCache =
                      @ \/ (ChangedSince(k)
                            /\ cache[k].results # Results(committed, k)),
                  !.prevStart[k] = commitGen]
       ELSE /\ spc' = "snap"
            /\ skey' = k
            /\ sres' = {}
            /\ hist' = [hist EXCEPT
                  !.sChanged = ChangedSince(k),
                  !.sStartGen = commitGen,
                  !.prevStart[k] = commitGen]
    /\ UNCHANGED <<fsVars, catalog, indexVars, readVars, scanVars, walkVars,
                   chanVars, writerVars, watchVars, shutdown, faultVars,
                   openVars, watchSet, progVars, callVars, fnVars, queryVars,
                   mutexVars, settingsVars>>

\* search: self.reader.searcher() and the execution of the query on it
SearchSnapshot ==
    /\ spc = "snap"
    /\ sres' = Results(reader.idx, skey)
    /\ spc' = "insert"
    /\ hist' = [hist EXCEPT
          !.servedStaleSnapshot =
              @ \/ (hist.sChanged /\ commitGen = hist.sStartGen
                    /\ Results(reader.idx, skey) # Results(committed, skey))]
    /\ UNCHANGED <<fsVars, catalog, indexVars, readVars, scanVars, walkVars,
                   chanVars, writerVars, watchVars, searchesLeft, skey, shutdown,
                   faultVars, openVars, watchSet, progVars, callVars, fnVars,
                   queryVars, mutexVars, settingsVars>>

\* search: self.cache.insert(cache_key, results.clone()) and return
SearchInsert ==
    /\ spc = "insert"
    /\ cache' = [cache EXCEPT ![skey] =
                    [hit |-> TRUE, results |-> sres, gen |-> commitGen]]
    /\ spc' = "idle"
    /\ UNCHANGED <<fsVars, catalog, indexVars, reader, scanVars, walkVars,
                   chanVars, writerVars, watchVars, searchesLeft, skey, sres, shutdown,
                   faultVars, hist, openVars, watchSet, progVars, callVars,
                   fnVars, queryVars, mutexVars, settingsVars>>

(***************************************************************************)
(* RebuildIndex (iced_ui update).                                          *)
(***************************************************************************)
ClearOp == [op |-> "clear", path |-> 0, modified |-> 0, size |-> 0]

\* indexer.clear(); indexer.commit(); metadata_db.clear()
RebuildClear ==
    /\ rpc = "idle" /\ ~scanning
    /\ scansLeft > 0
    /\ \E ok \in Outcomes("commit"), keep \in BOOLEAN :
        /\ ok => keep
        /\ LET pend == Append(pending, ClearOp)
           IN  /\ committed' = IF ok THEN ApplyOps(committed, pend) ELSE committed
               /\ pending' = IF ok \/ ~keep THEN <<>> ELSE pend
               /\ commitGen' = IF ok THEN commitGen + 1 ELSE commitGen
        /\ faultsLeft' = faultsLeft - Cost(ok)
        /\ hist' = [hist EXCEPT !.rGen = IF ok THEN commitGen + 1 ELSE @]
    /\ catalog' = [p \in Paths |-> NoRec]
    /\ rpc' = "cleared"
    /\ UNCHANGED <<fsVars, readVars, scanning, scanNo, scansLeft, walkVars, chanVars,
                   writerVars, watchVars, searchVars, shutdown, faultKinds,
                   openVars, watchSet, progVars, callVars, fnVars, queryVars,
                   mutexVars, settingsVars>>

\* "for dir in settings.index_dirs": the scan of the root
RebuildScan ==
    /\ rpc = "cleared"
    /\ ScanSetup
    /\ rpc' = "scan"
    /\ UNCHANGED <<fsVars, catalog, indexVars, readVars, watchVars,
                   searchVars, shutdown, faultVars, openVars, watchSet,
                   progress, progressOn,
                   lost, callVars, fnVars, queryVars, mutexVars, settingsVars>>

\* settings.index_dirs is empty: the handler ends with Message::IndexRebuilt
RebuildNoDirs ==
    /\ rpc = "cleared"
    /\ rpc' = "idle"
    /\ scansLeft' = scansLeft - 1
    /\ hist' = [hist EXCEPT !.doneGen = IF hist.rGen > @ THEN hist.rGen ELSE @]
    /\ UNCHANGED <<fsVars, catalog, indexVars, readVars, scanning, scanNo,
                   walkVars, chanVars, writerVars, watchVars, searchVars,
                   shutdown, faultVars, openVars, watchSet, progVars, callVars,
                   fnVars, queryVars, mutexVars, settingsVars>>

(***************************************************************************)
(* Restart of the application (setup_app -> IndexManager::open).           *)
(***************************************************************************)
\* the application is started again; between the runs the version file may
\* have been replaced and the index directory emptied (onDisk, hasMeta),
\* and one disk step of open may fail (failAt)
Reopen(onDisk, hasMeta, failAt) ==
    /\ ~scanning /\ rpc = "idle" /\ spc = "idle"
    /\ opensLeft > 0
    /\ opensLeft' = opensLeft - 1
    /\ LET stored == read_schema_version(onDisk)
           steps == OpenSteps(stored, hasMeta)
           before == IF hasMeta THEN committed ELSE EmptyIndex
           wiped == Done(steps, "remove", failAt)
           ok == failAt = "none"
       IN  /\ failAt \in {"none"} \cup {steps[i] : i \in 1..Len(steps)}
           /\ ~ok => ("io" \in faultKinds /\ faultsLeft > 0)
           /\ faultsLeft' = faultsLeft - Cost(ok)
           /\ committed' = IF wiped THEN EmptyIndex ELSE before
           /\ schemaFile' = IF Done(steps, "write", failAt)
                            THEN VersionFile(SCHEMA_VERSION)
                            ELSE IF wiped THEN NoVersionFile ELSE onDisk
           /\ metaJson' = IF Done(steps, "open", failAt) THEN TRUE
                          ELSE IF wiped THEN FALSE ELSE hasMeta
           /\ openResult' = IF ok THEN "ok" ELSE "err"
           /\ reader' = [idx |-> committed', gen |-> commitGen]
           /\ hist' = [hist EXCEPT
                 !.opened = @ \cup {[stored |-> stored, hasMeta |-> hasMeta,
                                     failAt |-> failAt, wiped |-> wiped,
                                     kept |-> committed' = before]},
                 !.wipedDocs = IF ok /\ wiped
                               THEN {p \in Paths :
                                       /\ LiveDocs(before, p) > 0
                                       /\ fs[p] # NoFile
                                       /\ catalog[p] = [modified |-> fs[p].mtime,
                                                        size |-> fs[p].size]}
                               ELSE @,
                 !.wipeScan = IF ok /\ wiped THEN scanNo ELSE @,
                 !.wipeFsLeft = IF ok /\ wiped THEN fsLeft ELSE @]
    /\ pending' = <<>>
    /\ cache' = NoCache
    /\ events' = {}
    /\ watching' = FALSE
    /\ buffer' = [p \in Paths |-> "None"]
    /\ shutdown' = FALSE
    /\ poisoned' = FALSE
    /\ watchSet' = {}
    /\ fnEntries' = open_names(fnDisk, fnDir)
    /\ fnJobs' = {}
    /\ UNCHANGED <<fs, fsLeft, catalog, commitGen, scanVars, walkVars, chanVars,
                   writerVars, taken, tickpc, searchVars, faultKinds, progVars,
                   callVars, fnDisk, fnDir, fnLeft, queryVars, mutexVars,
                   settingsVars>>

\* scans and restarts over a changing filesystem
NextReopen ==
    \/ \E f \in VersionFiles, m \in BOOLEAN,
          x \in {"none", "remove", "create", "write", "open"} : Reopen(f, m, x)
    \/ \E p \in Paths, f \in Files : FsWrite(p, f)
    \/ \E p \in Paths : FsDelete(p)
    \/ ScanStart
    \/ \E p \in Paths : WalkVisit(p)
    \/ \E p \in Paths : WalkCount(p)
    \/ WalkDone
    \/ \E p \in Paths : ParseFile(p)
    \/ ParserDone
    \/ WriterRecv
    \/ WriterClose
    \/ WriterCommit
    \/ WriterInvalidate
    \/ WriterMeta
    \/ ScanReturn

\* scans and restarts, in which only the disk steps of open may fail
InitReopen == InitWith({"io"}, MaxFaults, MaxFsOps, MaxScans, 0)

SpecReopen == InitReopen /\ [][NextReopen]_vars

(***************************************************************************)
(* Specifications.                                                         *)
(***************************************************************************)
\* the scan pipeline over a changing filesystem
Next ==
    \/ \E p \in Paths, f \in Files : FsWrite(p, f)
    \/ \E p \in Paths : FsDelete(p)
    \/ ScanStart
    \/ \E p \in Paths : WalkVisit(p)
    \/ \E p \in Paths : WalkCount(p)
    \/ WalkDone
    \/ \E p \in Paths : ParseFile(p)
    \/ ParserDone
    \/ WriterRecv
    \/ WriterClose
    \/ WriterCommit
    \/ WriterInvalidate
    \/ WriterMeta
    \/ ScanReturn

Spec == Init /\ [][Next]_vars

SpecChange == InitChange /\ [][Next]_vars

SpecCommitFail == InitCommitFail /\ [][Next]_vars

\* the scan pipeline and the Ctrl-C handler
NextShutdown ==
    \/ ScanStart
    \/ \E p \in Paths : WalkVisit(p)
    \/ \E p \in Paths : WalkCount(p)
    \/ WalkDone
    \/ \E p \in Paths : ParseFile(p)
    \/ ParserDone
    \/ WriterRecv
    \/ WriterClose
    \/ WriterCommit
    \/ WriterInvalidate
    \/ WriterMeta
    \/ ScanReturn
    \/ CtrlC

SpecShutdown == InitShutdown /\ [][NextShutdown]_vars

\* the scan under fair scheduling: the walker threads, the parse stage and
\* the writer are tasks of the blocking pool, each of which runs while it
\* has a step to take; nothing obliges a caller to start a scan or the
\* filesystem to change
ScanFairness ==
    /\ WF_vars(\E p \in Paths : WalkVisit(p))
    /\ WF_vars(\E p \in Paths : WalkCount(p))
    /\ WF_vars(WalkDone)
    /\ WF_vars(\E p \in Paths : ParseFile(p))
    /\ WF_vars(ParserDone)
    /\ WF_vars(WriterRecv)
    /\ WF_vars(WriterClose)
    /\ WF_vars(WriterCommit)
    /\ WF_vars(WriterInvalidate)
    /\ WF_vars(WriterMeta)
    /\ WF_vars(ScanReturn)

SpecFair == Init /\ [][Next]_vars /\ ScanFairness

\* one scan and the watcher
NextWatch ==
    \/ \E p \in Paths, f \in Files : FsWrite(p, f)
    \/ \E p \in Paths : FsDelete(p)
    \/ ScanStart
    \/ \E p \in Paths : WalkVisit(p)
    \/ \E p \in Paths : WalkCount(p)
    \/ WalkDone
    \/ \E p \in Paths : ParseFile(p)
    \/ ParserDone
    \/ WriterRecv
    \/ WriterClose
    \/ WriterCommit
    \/ WriterInvalidate
    \/ WriterMeta
    \/ ScanReturn
    \/ \E b \in BOOLEAN : UpdateWatchList(b)
    \/ \E e \in EventSet : HandleEvent(e)
    \/ WatcherTake
    \/ WatcherTick
    \/ WatcherIdleTick

SpecWatch == InitWatch /\ [][NextWatch]_vars

\* the scan pipeline and concurrent searches
NextSearch ==
    \/ ScanStart
    \/ \E p \in Paths : WalkVisit(p)
    \/ \E p \in Paths : WalkCount(p)
    \/ WalkDone
    \/ \E p \in Paths : ParseFile(p)
    \/ ParserDone
    \/ WriterRecv
    \/ WriterClose
    \/ WriterCommit
    \/ WriterInvalidate
    \/ WriterMeta
    \/ ScanReturn
    \/ ReaderReload
    \/ \E k \in Keys : CacheExpire(k)
    \/ \E k \in Keys : SearchStart(k)
    \/ SearchSnapshot
    \/ SearchInsert

SpecSearch == InitSearch /\ [][NextSearch]_vars

\* searches, scans and index rebuilds
NextRebuild ==
    \/ ScanStart
    \/ \E p \in Paths : WalkVisit(p)
    \/ \E p \in Paths : WalkCount(p)
    \/ WalkDone
    \/ \E p \in Paths : ParseFile(p)
    \/ ParserDone
    \/ WriterRecv
    \/ WriterClose
    \/ WriterCommit
    \/ WriterInvalidate
    \/ WriterMeta
    \/ ScanReturn
    \/ ReaderReload
    \/ \E k \in Keys : CacheExpire(k)
    \/ \E k \in Keys : SearchStart(k)
    \/ SearchSnapshot
    \/ SearchInsert
    \/ RebuildClear
    \/ RebuildScan
    \/ RebuildNoDirs

SpecRebuild == InitRebuild /\ [][NextRebuild]_vars

\* the watcher alone, over a filesystem that changes more often
NextTick ==
    \/ \E p \in Paths, f \in Files : FsWrite(p, f)
    \/ \E p \in Paths : FsDelete(p)
    \/ \E b \in BOOLEAN : UpdateWatchList(b)
    \/ \E e \in EventSet : HandleEvent(e)
    \/ WatcherTake
    \/ WatcherTick
    \/ WatcherIdleTick
    \/ PoisonLock
    \/ WatcherPoisonedTick

InitTick == InitWith(AllKinds, MaxFaults, MaxFsOps + 1, 0, 0)

SpecTick == InitTick /\ [][NextTick]_vars

\* the watch list being replaced while the watcher runs
NextWatchList ==
    \/ \E dirs \in SUBSET Dirs, existing \in SUBSET Dirs,
          x \in {"none", "create", "watch"} : update_watch_list(dirs, existing, x)
    \/ \E p \in Paths, f \in Files : FsWrite(p, f)
    \/ \E p \in Paths : FsDelete(p)
    \/ \E e \in EventSet : HandleEvent(e)
    \/ WatcherTake
    \/ WatcherTick

InitWatchList == InitWith(AllKinds, MaxFaults, MaxFsOps, 0, 0)

SpecWatchList == InitWatchList /\ [][NextWatchList]_vars

\* a scan that reports progress to a channel that is read slowly or never
NextProgress ==
    \/ ScanStart
    \/ \E p \in Paths : WalkVisit(p)
    \/ \E p \in Paths : WalkCount(p)
    \/ WalkDone
    \/ \E p \in Paths : ParseFile(p)
    \/ ParserDone
    \/ WriterRecv
    \/ WriterClose
    \/ WriterCommit
    \/ WriterInvalidate
    \/ WriterMeta
    \/ ScanReturn
    \/ ProgressRecv

InitProgress == InitState(AllKinds, MaxFaults, 0, MaxScans, 0, TRUE)

SpecProgress == InitProgress /\ [][NextProgress]_vars

\* the catalog queries on every small catalog and argument list
NextNeeds ==
    \E readOk \in [1..Len(callArgs.entries) -> BOOLEAN] : QueryCatalog(readOk)

InitNeeds ==
    /\ InitCore({}, 0, 0, 0, 0, FALSE)
    /\ NoWriterCalls
    /\ NoHistory
    /\ NoNames
    /\ NoQuery
    /\ callArgs \in [cat : FullCatalogs, entries : SeqsUpTo(Entry, MaxEntries)]
    /\ callRet = NoRet

SpecNeeds == InitNeeds /\ [][NextNeeds]_vars

\* one batch_update_metadata call on a catalog and a batch
NextBatch ==
    \E hash, now \in 1..NumHashes,
       failAt \in FailPoints(callArgs.entries) : UpdateCatalog(hash, now, failAt)

SpecBatch == InitNeeds /\ [][NextBatch]_vars

\* direct calls of the filename index and its background threads
NextNames ==
    \/ \E p \in Paths : FnAdd(p)
    \/ FnCommit
    \/ FnClear
    \/ \E paths \in SeqsUpTo(Paths, MaxEntries) : FnRebuild(paths)
    \/ \E q \in {FileName(p) : p \in Paths}, limit \in 0..MaxEntries :
          FnSearch(q, limit)
    \/ FnGetStats
    \/ \E job \in fnJobs : FnJobRun(job)

InitNames ==
    /\ InitCore({}, 0, 0, 0, 0, FALSE)
    /\ NoWriterCalls
    /\ NoHistory
    /\ callArgs = NoArgs
    /\ callRet = NoRet
    /\ fnEntries = <<>>
    /\ fnDisk = NoBin
    /\ fnDir \in BOOLEAN
    /\ fnJobs = {}
    /\ fnLeft = MaxFnOps
    /\ NoQuery

SpecNames == InitNames /\ [][NextNames]_vars

\* one search call on a query string of up to MaxWords words
NextQuery == SearchQuery

InitQuery ==
    /\ InitCore({}, 0, 0, 0, 0, FALSE)
    /\ NoWriterCalls
    /\ NoHistory
    /\ NoNames
    /\ callArgs = NoArgs
    /\ callRet = NoRet
    /\ qIn \in [words : SeqsUpTo(QueryWords, MaxWords), sizes : SizeFilters]
    /\ qOut = NoQueryOut

SpecQuery == InitQuery /\ [][NextQuery]_vars

\* the two threads call the index writer
NextWriter ==
    \/ \E t \in Threads, op \in WriterOps : \E docs \in DocsOf(op) :
          WriterEnter(t, op, docs)
    \/ \E t \in Threads : WriterLock(t)
    \/ \E t \in Threads, ok \in BOOLEAN : WriterStep(t, ok)
    \/ \E t \in Threads : WriterReturn(t)

InitWriter ==
    /\ InitCore({}, 0, 0, 0, 0, FALSE)
    /\ NoNames
    /\ NoQuery
    /\ NoHistory
    /\ callArgs = NoArgs
    /\ callRet = NoRet
    /\ wOwner = "none"
    /\ wCall = [t \in Threads |-> Idle]
    /\ wLog = <<>>
    /\ wCallsLeft = MaxWriterCalls

SpecWriter == InitWriter /\ [][NextWriter]_vars

\* add_search_history calls on settings that start without a history
NextHistory ==
    \E query \in Queries, failAt \in {"none", "load", "save"} :
        AddSearchHistory(query, failAt)

InitHistory ==
    /\ InitCore({}, 0, 0, 0, 0, FALSE)
    /\ NoNames
    /\ NoQuery
    /\ NoWriterCalls
    /\ callArgs = NoArgs
    /\ callRet = NoRet
    /\ search_history = <<>>
    /\ hsRet = NoHistoryCall
    /\ hsLeft = MaxHistoryOps

SpecHistory == InitHistory /\ [][NextHistory]_vars

(***************************************************************************)
(* Properties.                                                             *)
(***************************************************************************)
\* scan n has run to completion
Complete(n) == n < scanNo \/ (n = scanNo /\ ~scanning)

\* scan_directory is about to return, or has returned and no other has begun
ScanOver == scanNo >= 1 /\ wpc \in {"done", "idle"}

\* C1: in every committed state of the inverted index there is at most one
\* live document per file_path; a re-indexed file replaces its old document
C1_OneDocPerPath == \A p \in Paths : LiveDocs(committed, p) <= 1

\* C2 (as stated): parse_file is called only for a path that has no
\* FileRecord or whose stored (modified, size) differs from the file's
C2_ParseOnlyStale == \A c \in hist.parses : ~c.hadRec \/ ~c.same

\* C2 (amended): parse_file is called only for a path that has no
\* FileRecord, or whose stored (modified, size) differs from the file's,
\* or whose needs_reindex read of the catalog failed
C2_ParseOnlyStaleOrUnread ==
    \A c \in hist.parses : ~c.hadRec \/ ~c.same \/ c.readErr

\* both the scanner and the watcher have parsed, the watcher a file that
\* had a record and changed since
C2_Witness ==
    /\ \E c \in hist.parses : c.by = "scan" /\ ~c.hadRec /\ ~c.readErr
    /\ \E c \in hist.parses : c.by = "watch" /\ c.hadRec /\ ~c.same /\ ~c.readErr

\* p exists and has not been changed since before scan n began
Unchanged(p, n) == fs[p] # NoFile /\ hist.lastChange[p] < n

Untroubled(p) ==
    /\ p \notin hist.parseFailed
    /\ p \notin hist.metaFailed
    /\ \A c \in hist.parses : c.path = p => ~c.readErr

C4_CatalogIffIndex ==
    ScanOver =>
        \A p \in Paths :
            /\ (catalog[p] # NoRec) <=> (LiveDocs(committed, p) > 0)
            /\ p \in hist.parseFailed
                => (catalog[p] = NoRec /\ LiveDocs(committed, p) = 0)

\* C5: of two identical searches with a change committed between them, the
\* second never returns the first one's cached results nor results of an
\* index snapshot older than the change
C5_SecondSearchFresh ==
    ~hist.servedStaleCache /\ ~hist.servedStaleSnapshot

\* C6: every commit is followed by a cache invalidation: once the caller
\* of a commit has finished, no entry inserted before that commit is served
C6_NoEntryOutlivesCommit ==
    \A k \in Keys : cache[k].hit => cache[k].gen >= hist.doneGen

\* C7: once a tick has followed the deletion of a watched, indexed file,
\* the file has neither a committed document nor a FileRecord
C7_DeletedFileRemoved ==
    \A p \in hist.ticked :
        fs[p] = NoFile => (LiveDocs(committed, p) = 0 /\ catalog[p] = NoRec)

C9_NoRecordAfterFailedCommit == hist.recordedAfterFail = {}

\* C10: once the shutdown flag is set while a scan is running, the walker
\* of that scan enqueues no further path
C10_NoEnqueueAfterShutdown == hist.enqAfterShutdown = {}

\* C11: after open has wiped the index on a schema-version mismatch, the
\* next scan gives every previously indexed, unchanged file a document again
C11_RepopulatedAfterWipe ==
    \A p \in hist.wipedDocs :
        (Complete(hist.wipeScan + 1) /\ fsLeft = hist.wipeFsLeft)
            => LiveDocs(committed, p) >= 1

\* C12: after a successful open the stored version reads as SCHEMA_VERSION;
\* the directory was wiped iff a stored version was read and differed, or
\* none was read while meta.json was present; otherwise the documents are
\* kept; and open fails only when one of its disk steps fails
C12_OpenRebuildsOnMismatchOnly ==
    /\ openResult = "ok" =>
          read_schema_version(schemaFile) = [some |-> TRUE, ver |-> SCHEMA_VERSION]
    /\ \A o \in hist.opened :
          o.failAt = "none" =>
             /\ o.wiped <=> \/ o.stored.some /\ o.stored.ver # SCHEMA_VERSION
                            \/ ~o.stored.some /\ o.hasMeta
             /\ ~o.wiped => o.kept
    /\ openResult = "err" => \E o \in hist.opened : o.failAt # "none"

\* an index without a version file has been opened and rebuilt, after a
\* scan had put documents into it
C12_Witness ==
    /\ openResult = "ok"
    /\ scanNo >= 1
    /\ \E o \in hist.opened :
          o.failAt = "none" /\ o.wiped /\ ~o.stored.some /\ o.hasMeta

C15_WatcherNeverStops ==
    /\ tickpc \in {"sleep", "work"}
    /\ tickpc = "work" => ENABLED WatcherTick
    /\ (tickpc = "sleep" /\ ~poisoned /\ \E p \in Paths : buffer[p] # "None")
          => ENABLED WatcherTake

\* a tick has handled events that were buffered after a failed tick
C15_Witness == hist.tickFailed /\ hist.tickAfterFailure

\* C16: after update_watch_list has returned, with Ok or with an error, the
\* active watch set is the existing directories of its argument or the set
\* that was active before the call
C16_WatchSetReplacedAtomically ==
    hist.lastUpdate.called =>
        (watchSet = hist.lastUpdate.target \/ watchSet = hist.lastUpdate.before)

\* C17: progress emission never blocks the pipeline: the channel never
\* holds more than its capacity, and whatever it holds the walker can go on
\* to its next file and the writer can take its next task
C17_ProgressNeverBlocks ==
    /\ progress <= ProgressCap
    /\ (scanning /\ ~walkerDone) =>
          \/ \E p \in Paths : ENABLED WalkVisit(p)
          \/ \E p \in Paths : ENABLED WalkCount(p)
          \/ ENABLED WalkDone
    /\ (wpc = "recv" /\ taskChan # <<>>) => ENABLED WriterRecv
    /\ (wpc = "recv" /\ taskChan = <<>> /\ taskClosed) => ENABLED WriterClose
    /\ wpc = "meta" => ENABLED WriterMeta

\* a scan has returned although events were dropped on a full channel
C17_Witness ==
    /\ ScanOver /\ ~scanning
    /\ progress = ProgressCap /\ lost
    /\ hist.recvd # {}

\* what the stored stamps of an entry's path say, whatever else is stored
StampsDiffer(cat, e) ==
    \/ cat[e.path] = NoRec
    \/ <<cat[e.path].modified, cat[e.path].size>> # <<e.modified, e.size>>

Occurrences(es, e) == Cardinality({i \in 1..Len(es) : es[i] = e})
Removed(before, after) ==
    \E i \in 1..Len(before) :
        Occurrences(after, before[i]) < Occurrences(before, before[i])
IsPrefix(a, b) == Len(a) <= Len(b) /\ \A i \in 1..Len(a) : a[i] = b[i]

\* C19 (as stated): no operation of the filename index other than clear
\* removes an entry from the in-memory list
C19_OnlyClearRemoves ==
    hist.fnOp.op \notin {"none", "clear"} => ~Removed(hist.fnOp.before, fnEntries)

\* C19 (amended): no operation other than clear and rebuild_index removes
\* an entry: after add_file the old list is a proper prefix of the new one,
\* after commit, search and get_stats the list is the old one
C19_OnlyClearAndRebuildRemove ==
    /\ hist.fnOp.op = "add_file" =>
          /\ IsPrefix(hist.fnOp.before, fnEntries)
          /\ Len(fnEntries) = Len(hist.fnOp.before) + 1
    /\ hist.fnOp.op \in {"commit", "search", "get_stats"} =>
          fnEntries = hist.fnOp.before

\* add_file was called for a path that already had an entry, after an
\* entry of another path
C19_Witness ==
    /\ hist.fnOp.op = "add_file"
    /\ Len(hist.fnOp.before) >= 2
    /\ \E i \in 1..Len(hist.fnOp.before) :
          /\ i < Len(hist.fnOp.before)
          /\ hist.fnOp.before[i] = fnEntries[Len(fnEntries)]

\* C20: no path appears in more than one FilenameEntry, and every path with
\* a document in the inverted index has an entry
C20_OneEntryPerPath ==
    \A p \in Paths :
        /\ Occurrences(fnEntries, FilenameEntry(p)) <= 1
        /\ LiveDocs(committed, p) > 0 => Occurrences(fnEntries, FilenameEntry(p)) >= 1

\* C21: once clear() has returned and every background thread spawned by
\* it and by the earlier add_file and commit calls has finished, the list
\* is empty, filenames.bin does not exist and a reopen yields no entries
C21_ClearLeavesNothing ==
    (hist.fnOp.op = "clear" /\ fnJobs = {}) =>
        /\ fnEntries = <<>>
        /\ ~fnDisk.exists
        /\ open_names(fnDisk, fnDir) = <<>>

\* the words of the query under study, and what the query language says of
\* each word of the forms ext:EXT, path:P, size:>N unit, size:<N unit and
\* free text
HasWord(w) == \E i \in 1..Len(qIn.words) : qIn.words[i] = w
Reading(w) ==
    CASE w = <<"e", "x", "t", ":", "p", "d", "f">> -> [kind |-> "ext", val |-> <<"p", "d", "f">>]
      [] w = <<"e", "x", "t", ":", ".", "P", "D", "F">> -> [kind |-> "ext", val |-> <<"p", "d", "f">>]
      [] w = <<"e", "x", "t", ":", "7", "z">> -> [kind |-> "ext", val |-> <<"7", "z">>]
      [] w = <<"p", "a", "t", "h", ":", "R", "e", "p", "o", "r", "t", "s">> -> [kind |-> "path", val |-> <<"r", "e", "p", "o", "r", "t", "s">>]
      [] w = <<"s", "i", "z", "e", ":", "<", "1", "0", "M", "B">> -> [kind |-> "max", val |-> 10 * 1024 * 1024]
      [] w = <<"s", "i", "z", "e", ":", ">", "1", "M", "B">> -> [kind |-> "min", val |-> 1024 * 1024]
      [] w = <<"a", "n", "n", "u", "a", "l">> -> [kind |-> "text", val |-> w]
      [] w = <<"r", "e", "p", "o", "r", "t">> -> [kind |-> "text", val |-> w]
      [] OTHER -> [kind |-> "other", val |-> w]
\* the value of the last word of a kind (the last operator of a kind wins)
LastOf(kind, none, Some(_)) ==
    LET is == {i \in 1..Len(qIn.words) : Reading(qIn.words[i]).kind = kind}
    IN  IF is = {} THEN none
        ELSE Some(Reading(qIn.words[CHOOSE i \in is : \A j \in is : j <= i]).val)
FreeText ==
    LET ws == SelectSeq(qIn.words, LAMBDA w : Reading(w).kind = "text")
    IN  IF ws = <<>> THEN <<"*">> ELSE join(ws)
SizeWords == {w \in QueryWords : StandsAt(w, 1, <<"s", "i", "z", "e", ":">>)}
OnlySizeWord(w) ==
    /\ HasWord(w)
    /\ \A v \in SizeWords \ {w} : ~HasWord(v)
TextWords == {split_whitespace(qOut.parsed.text_query, 1)[i] :
                i \in 1..Len(split_whitespace(qOut.parsed.text_query, 1))}

\* C22: for a query of ext:, path:, size:<, size:> operators and free-text
\* words in any order, parse extracts each operator (extension lowercased
\* without its leading dot, path_filter lowercased, max_size and min_size
\* the number times its 1024-based unit) and text_query is the remaining
\* words in their order, joined by single spaces ("*" when none remain)
C22_OperatorsExtracted ==
    (/\ qOut.called
     /\ \A i \in 1..Len(qIn.words) : Reading(qIn.words[i]).kind # "other") =>
        /\ qOut.parsed.extension = LastOf("ext", NoGroup, Group)
        /\ qOut.parsed.path_filter = LastOf("path", NoGroup, Group)
        /\ qOut.parsed.min_size = LastOf("min", NoSize, Size)
        /\ qOut.parsed.max_size = LastOf("max", NoSize, Size)
        /\ qOut.parsed.text_query = FreeText

\* C23: a search whose query string contains size:>1MB returns only
\* documents of more than 1048576 bytes
C23_SizeGreaterExclusive ==
    (qOut.called /\ HasWord(<<"s", "i", "z", "e", ":", ">", "1", "M", "B">>)) =>
        \A d \in qOut.results : d.size > 1048576

\* C24: a search whose query string contains ext:pdf returns only documents
\* whose lowercased file_path ends in .pdf
C24_ExtPdfOnly ==
    (qOut.called /\ HasWord(<<"e", "x", "t", ":", "p", "d", "f">>)) =>
        \A d \in qOut.results :
            StandsAt(to_lowercase(d.file_path), Len(d.file_path) - 3, <<".", "p", "d", "f">>)

\* C25: size:>=N unit sets min_size to N x unit, size:<=N unit sets
\* max_size to N x unit, and the operator is removed from the free text
C25_InclusiveBounds ==
    /\ (qOut.called /\ OnlySizeWord(<<"s", "i", "z", "e", ":", ">", "=", "1", "M", "B">>)) =>
          /\ qOut.parsed.min_size = Size(1024 * 1024)
          /\ <<"s", "i", "z", "e", ":", ">", "=", "1", "M", "B">> \notin TextWords
    /\ (qOut.called /\ OnlySizeWord(<<"s", "i", "z", "e", ":", "<", "=", "2", "K", "B">>)) =>
          /\ qOut.parsed.max_size = Size(2 * 1024)
          /\ <<"s", "i", "z", "e", ":", "<", "=", "2", "K", "B">> \notin TextWords

\* C26: a bare size:N sets min_size to N and leaves max_size unset
C26_BareSizeIsMin ==
    (qOut.called /\ OnlySizeWord(<<"s", "i", "z", "e", ":", "1", "0", "0">>)) =>
        /\ qOut.parsed.min_size = Size(100)
        /\ qOut.parsed.max_size = NoSize

\* C27: within one tick the buffer keeps one action per path and the last
\* event wins: a Create/Modify event handled after a Remove leaves Index,
\* a Remove event handled after a Create/Modify leaves Remove
C27_LastEventWins ==
    [][\A e \in events :
          (/\ events' = events \ {e} /\ watching' = watching   \* e is handled
           /\ ~poisoned /\ buffer[e.path] # "None") =>
              buffer'[e.path] = IF e.kind = "Remove" THEN "Remove" ELSE "Index"]_vars

\* C28: a watcher tick commits exactly once if it applied a remove_by_path
\* or an add_batch and not at all otherwise; the commit is followed by the
\* cache invalidation, and no delete or add of the tick is left uncommitted
C28_OneCommitPerWorkingTick ==
    hist.lastTick.ran =>
        /\ hist.lastTick.commits = (IF hist.lastTick.applied THEN 1 ELSE 0)
        /\ hist.lastTick.ok =>
              /\ hist.lastTick.commits = 1 => hist.lastTick.invalidated
              /\ hist.lastTick.left = 0

\* C29: the number of discovered paths queued between the walk and the
\* parse stage never exceeds a fixed capacity, however many files the root
\* holds: with a capacity below the number of files, the walker blocks
\* before the queue holds them all
C29_PathQueueBounded == Cardinality(pathQueue) < NumPaths

\* C30: batch_update_metadata is all-or-nothing: when it returns Ok every
\* entry of the batch is upserted (the last entry of a path winning) and
\* nothing else changes; when an insert or the commit fails it returns an
\* error and the catalog is unchanged from before the call
C30_BatchUpdateAllOrNothing ==
    callRet.called =>
        IF callRet.ok
        THEN /\ callRet.count = Len(callArgs.entries)
             /\ \A p \in Paths :
                   LET hits == {i \in 1..Len(callArgs.entries) :
                                  callArgs.entries[i].path = p}
                   IN  IF hits = {} THEN callRet.catAfter[p] = callArgs.cat[p]
                       ELSE \E i \in hits :
                              /\ \A j \in hits : j <= i
                              /\ callRet.catAfter[p] =
                                   [modified |-> callArgs.entries[i].modified,
                                    size |-> callArgs.entries[i].size,
                                    content_hash |-> callRet.hash,
                                    indexed_at |-> callRet.now]
        ELSE callRet.catAfter = callArgs.cat

\* the call failed at its second insert, after a first insert that would
\* have changed a stored record
C30_Witness ==
    /\ callRet.called /\ ~callRet.ok
    /\ callRet.failAt = [step |-> "insert", at |-> 2]
    /\ callArgs.cat[callArgs.entries[1].path] # NoRec
    /\ callArgs.cat[callArgs.entries[1].path].modified # callArgs.entries[1].modified
    /\ callRet.catAfter = callArgs.cat

\* C31: writer operations never overlap: at most one thread is between the
\* lock and the return of add_document, add_documents_batch or commit, and
\* what one call hands to the writer is contiguous in the writer's order,
\* never interleaved with another call's documents or commit
C31_WriterOpsNeverOverlap ==
    /\ Cardinality({t \in Threads : wCall[t].pc \in {"held", "ret"}}) <= 1
    /\ \A t \in Threads : wCall[t].pc \in {"held", "ret"} => wOwner = t
    /\ \A i, j \in 1..Len(wLog) :
          (i < j /\ wLog[i].no = wLog[j].no) =>
              \A k \in i..j : wLog[k].no = wLog[i].no

\* a thread is in the middle of a batch while the other waits for the lock
C31_Witness ==
    \E t, u \in Threads :
        /\ t # u
        /\ wCall[t].op = "add_documents_batch"
        /\ wCall[t].pc = "held" /\ wCall[t].at = 1 /\ Len(wCall[t].docs) = 2
        /\ wCall[u].pc = "lock"
        /\ wLog # <<>>


\* C37: after add_search_history(q) succeeds the stored history has an
\* entry for q, holds at most HistoryCap entries with pairwise distinct
\* queries, and is sorted by frequency, highest first
C37_HistoryAfterAdd ==
    (hsRet.called /\ hsRet.ok) =>
        /\ \E i \in 1..Len(search_history) : search_history[i].query = hsRet.query
        /\ Len(search_history) <= HistoryCap
        /\ \A i, j \in 1..Len(search_history) :
              i # j => search_history[i].query # search_history[j].query
        /\ \A i, j \in 1..Len(search_history) :
              i < j => search_history[i].frequency >= search_history[j].frequency


\* C36: once every background save thread of the filename index has
\* finished, filenames.bin holds the most recent snapshot taken by add_file,
\* commit or rebuild_index (in a data directory that exists, clear not
\* having been called)
C36_LatestSnapshotOnDisk ==
    (fnJobs = {} /\ hist.fnSave.some /\ fnDir /\ ~hist.fnCleared) =>
        fnDisk = Bin(hist.fnSave.data)


\* C35: every Content progress event of the writer has processed <= total,
\* and the final event has processed = total
C35_ContentProcessedWithinTotal ==
    /\ \A e \in hist.content : e.processed <= e.total
    /\ \A e \in hist.contentEnd : e.processed = e.total

\* the entries of a map of buffered events
Entries(map, p) == IF map[p] # "None" THEN 1 ELSE 0

\* C33: no buffered watcher event is lost or handled twice: every entry the
\* callback has created for a path is either still in the buffer, or in the
\* map the running tick took, or was handled by exactly one finished tick;
\* the processor holds a taken map only while it works on it, and an entry
\* inserted meanwhile stays in the buffer for a later tick
C33_NoEventLostOrHandledTwice ==
    /\ \A p \in Paths :
          hist.created[p] =
              hist.handled[p] + Entries(taken, p) + Entries(buffer, p)
    /\ tickpc = "sleep" => taken = NoEvents
    /\ (tickpc = "work" /\ ~poisoned) =>
          \A p \in Paths : buffer[p] # "None" => ENABLED WatcherTick

\* a path was buffered again while the tick that had taken its first entry
\* was at work, and a later tick has handled the second entry
C33_Witness ==
    \E p \in Paths :
        /\ p \in hist.late
        /\ hist.created[p] = 2 /\ hist.handled[p] = 2
        /\ tickpc = "sleep" /\ buffer[p] = "None"

\* C32: when a running scan and a watcher tick both find the same path
\* stale before either has written its FileRecord, no committed index holds
\* the path's document twice, so that it holds it once when both have
\* committed
C32_RacedPathIndexedOnce ==
    \A p \in hist.raced : LiveDocs(committed, p) <= 1

\* C34: scan_directory terminates: under fair scheduling a scan that has
\* started returns, whatever fails on the way and whether or not the task
\* channel fills up
C34_ScanTerminates == scanning ~> ~scanning

\* a scan has returned in which the writer took a task from the full task
\* channel while the parse stage still had a path to send
C34_Witness == hist.unblocked /\ ~scanning /\ scanNo >= 1 /\ wpc = "idle"

====
